---- MODULE Spec2Model ----
(***************************************************************************)
(* Model of hadoopt_odoo_mcp:                                              *)
(*                                                                         *)
(*  - the connection registry (core/instance_manager.py, InstanceManager)  *)
(*    with the configuration lookup it uses (core/config_manager.py) and   *)
(*    the part of the caching client that its liveness probe goes through; *)
(*  - the caching client (odoo_client.py, OdooClient): _execute,           *)
(*    search_read, clear_cache and invalidate_old_cache on one client;     *)
(*  - the transport (odoo_client.py, OdooConnect.request).                 *)
(*                                                                         *)
(* Neither the registry nor the client has a lock.  Their callers are      *)
(* modelled as threads, each executing one operation at a time; one        *)
(* action is one access to the shared fields (or one blocking remote       *)
(* call), so that any interleaving of two callers that the interpreter     *)
(* can produce is a behaviour of SpecConc and of SpecClientConc.  SpecSeq  *)
(* and SpecClient are the same programs with one caller and a clock that   *)
(* advances; SpecTransport is one request of the transport.                *)
(***************************************************************************)
EXTENDS Integers, Sequences, FiniteSets

(* ------------------------------ bounds -------------------------------- *)

\* operations the callers start in one behaviour
MaxCalls == 3

\* logins the remote side accepts in one behaviour; it refuses the later
\* ones
MaxClients == 4

\* operations the callers of the client under test start in one behaviour
MaxOps == 3

\* the longest chain of redirect responses a server answers with
MaxChain == 6

(* ------------------------- program constants -------------------------- *)

\* self.connection_validity = 3600
connection_validity == 3600

\* cache_ttl default of an endpoint configuration
cache_ttl == 300

\* max_redirects default of OdooConnect
max_redirects == 5

(* ---------------------------- the inputs ------------------------------ *)

\* the endpoint names callers pass
Names == {"default", "b"}

\* "no instance name given" (instance_name=None)
NoName == "none"

\* "no client" (None)
None == 0

\* the callers
Threads == {"t1", "t2"}

\* the configuration files there may be when the registry is constructed,
\* each with its cache_enabled setting: b.json sets it to false, default.json
\* leaves the default (true)
ConfigChoices ==
    {[n \in ns |-> n # "b"] : ns \in {{"default", "b"}, {"default"}, {"b"}}}

\* the clock readings of a behaviour: the start, one cache TTL later, one
\* connection validity window later and the second after that
TimePoints == {0, cache_ttl, connection_validity, connection_validity + 1}

\* the cache key of the probe validate_connection issues:
\* "res.users:read:([uid], ['name']):{}"
ProbeKey == "res.users:read"

(* ------------------------- dictionaries ------------------------------- *)

\* d[k] = v of a Python dict
Put(d, k, v) == [x \in (DOMAIN d) \cup {k} |-> IF x = k THEN v ELSE d[x]]

\* the empty dict
EmptyDict == [x \in {} |-> None]

\* del d[k] of a Python dict, for a key that may be missing
Del(d, k) == [x \in (DOMAIN d) \ {k} |-> d[x]]

(* ------------------- ConfigManager (config_manager.py) ---------------- *)

\* list_available_instances: the names with a configuration file, sorted
list_available_instances(cfgs) == DOMAIN cfgs

\* load_config: the configuration instance_name resolves to (named by the
\* file it is read from), NoName when FileNotFoundError is raised.  A name
\* without a file of its own falls back to the default configuration.
load_config(instance_name, cfgs) ==
    IF instance_name \in DOMAIN cfgs THEN instance_name
    ELSE IF instance_name # "default" /\ "default" \in DOMAIN cfgs
    THEN "default"
    ELSE NoName

\* config.get("cache_enabled", True) of the configuration read from file cfg
cache_enabled_of(cfg, cfgs) == cfgs[cfg]

\* add_instance_config, lines 186-232: the files once the configuration of
\* instance_name is written, with the cache_enabled the caller gave or the
\* default (true)
add_instance_config(instance_name, enabled, cfgs) ==
    Put(cfgs, instance_name, enabled)

\* the endpoint names in sorted order
NameOrder == <<"b", "default">>

\* instances[0] of a non-empty sorted list of names
SortedFirst(instances) ==
    LET i == CHOOSE i \in 1..Len(NameOrder) :
                 /\ NameOrder[i] \in instances
                 /\ \A j \in 1..(i - 1) : NameOrder[j] \notin instances
    IN NameOrder[i]

\* __init__ and _initialize_instances: the active instance after
\* construction; with no instance configured it stays default_instance
InitialActive(instances) ==
    IF instances = {} \/ "default" \in instances
    THEN "default"
    ELSE SortedFirst(instances)

(* ------------------------ OdooClient (odoo_client.py) ----------------- *)

\* a freshly constructed, authenticated client for instance_name
NewClient(instance_name, cfg, enabled) ==
    [name |-> instance_name, cfg |-> cfg, cache_enabled |-> enabled,
     cache |-> {}, cache_ts |-> EmptyDict]

\* _execute, the cache test: the entry's age is below the TTL
CacheFresh(now, stamp) == now - stamp < cache_ttl

\* _execute, lines 100-102: the call is a cached one and its key is in
\* self._cache
CacheHas(cl, key) ==
    /\ cl.cache_enabled
    /\ key \in cl.cache

\* _execute, line 128: self._cache[cache_key] = result
CacheStore(cl, key) == [cl EXCEPT !.cache = @ \cup {key}]

\* _execute, line 129: self._cache_timestamps[cache_key] = time.time()
CacheStamp(cl, key, now) == [cl EXCEPT !.cache_ts = Put(cl.cache_ts, key, now)]

(* ----------------- OdooClient, the client under test ------------------ *)

\* the cache_ttl the client under test is constructed with
client_ttl == 5

\* the clock readings of a behaviour of the client under test
ClientTimes == {0, 2, 5, 6}

\* model names, as the pieces of their text: "res.partner" is the
\* beginning of "res.partner.bank"
partner == <<"res.partner">>
partner_bank == <<"res.partner", ".bank">>

\* the model names callers pass
Models == {partner, partner_bank}

\* method names, as the pieces of their text: "search" is the beginning
\* of "search_read" and of "search_count"
search == <<"search">>
search_read == <<"search", "_read">>
search_count == <<"search", "_count">>
read == <<"read">>
fields_get == <<"fields_get">>
write == <<"write">>

\* the methods callers pass to execute_method
Methods == {search, search_read, search_count, write}

\* an omitted model or method (None)
NoArg == <<>>

\* what the remote side answers: no ids or records, or some
Results == {<<>>, <<"rec">>}

\* the value an exception stands for
Failure == <<"error">>

\* mutant: every method is cached
IsCacheableAny(method) == TRUE

\* _execute lines 100 and 126: the methods whose results are cached
IsCacheable(method) == method \in {search, read, search_read, fields_get}

\* str(args) and str(kwargs) of the calls made with a method
ArgsText(method) ==
    IF method = read THEN <<"([1],)", ":", "{}">> ELSE <<"([],)", ":", "{}">>

\* _execute lines 101 and 127: f"{model}:{method}:{str(args)}:{str(kwargs)}"
cache_key(model, method) ==
    model \o <<":">> \o method \o <<":">> \o ArgsText(method)

\* mutant: an entry as old as the TTL is still served
StillValidInclusive(now, stamp, ttl) == now - stamp <= ttl

\* _execute line 104: time.time() - self._cache_timestamps[key] < cache_ttl
StillValid(now, stamp, ttl) == now - stamp < ttl

\* mutant: the result of a failed remote call is cached too
StoresResultAlways(succeeded, enabled, method) ==
    enabled /\ IsCacheable(method)

\* _execute lines 121-126: the call goes on to store its result
StoresResult(succeeded, enabled, method) ==
    succeeded /\ enabled /\ IsCacheable(method)

\* str.startswith
startswith(k, pattern) ==
    /\ Len(pattern) <= Len(k)
    /\ SubSeq(k, 1, Len(pattern)) = pattern

\* mutant: the patterns end without the colon
ClearPatternOpen(model, method) ==
    IF method # NoArg THEN model \o <<":">> \o method ELSE model

\* clear_cache lines 422 and 429: f"{model}:{method}:" and f"{model}:"
ClearPattern(model, method) ==
    IF method # NoArg
    THEN model \o <<":">> \o method \o <<":">>
    ELSE model \o <<":">>

\* clear_cache lines 423 and 430: keys_to_remove
ClearKeys(c, model, method) ==
    {k \in DOMAIN c : startswith(k, ClearPattern(model, method))}

\* the max_age arguments callers pass to invalidate_old_cache: omitted,
\* 0 and 2
MaxAges ==
    {[given |-> FALSE, value |-> 0], [given |-> TRUE, value |-> 0],
     [given |-> TRUE, value |-> 2]}

\* invalidate_old_cache line 450: max_age or self.cache_ttl
EffectiveMaxAge(max_age, ttl) ==
    IF max_age.given /\ max_age.value # 0 THEN max_age.value ELSE ttl

\* invalidate_old_cache lines 452-455: keys_to_remove
SweepKeys(stamps, current_time, max_age) ==
    {k \in DOMAIN stamps : current_time - stamps[k] > max_age}

\* the dict d without the keys in ks
DelAll(d, ks) == [x \in (DOMAIN d) \ ks |-> d[x]]

(* ----------------------- OdooConnect, pure parts ---------------------- *)

\* the redirect responses: to an absolute URL on another host, and to a
\* path with a query on the same host; header is the name of the location
\* header as the server spells it
Locations ==
    {[code |-> 302, header |-> "location", netloc |-> "erp2.example.com",
      path |-> "/xmlrpc/2/object", query |-> ""],
     [code |-> 301, header |-> "location", netloc |-> "",
      path |-> "/moved", query |-> "db=1"],
     [code |-> 307, header |-> "Location", netloc |-> "",
      path |-> "/moved", query |-> "db=1"]}

\* a response without location header
Plain(code) ==
    [code |-> code, header |-> "", netloc |-> "", path |-> "", query |-> ""]

\* what ends a chain of redirects: a successful response, a redirect
\* response without location header, a server error
Finals == {Plain(200), Plain(302), Plain(500)}

\* the chains of n redirect responses
Redirects(n) == [1..n -> Locations]

\* request line 501: the response is a redirect and
\* err.headers.get("location") finds its location; err.headers is a plain
\* dict of the headers as the server spelled them
Followed(response) ==
    /\ response.code \in {301, 302, 303, 307, 308}
    /\ response.header = "location"

\* request lines 505-506: the host the next request goes to
RedirectedHost(host, location) ==
    IF location.netloc # "" THEN location.netloc ELSE host

\* request lines 507-509: the handler the next request goes to
RedirectedHandler(location) ==
    IF location.query # ""
    THEN <<location.path>> \o <<"?", location.query>>
    ELSE <<location.path>>

\* request line 497: the loop goes on
MayRequest(redirects) == redirects < max_redirects

(* --------------------- InstanceManager, pure parts -------------------- *)

\* mutant: an omitted name resolves to the default instance
ResolveNameDefault(arg, active) == IF arg = NoName THEN "default" ELSE arg

\* get_client line 136: instance_name or self.active_instance
ResolveName(arg, active) == IF arg = NoName THEN active ELSE arg

\* validate_connection line 113: the connection is older than the window
TimestampExpired(now, stamp) == now - stamp > connection_validity

\* mutant: a failed validation is not followed by a reconnect
AfterValidateNoReconnect(valid) == "gc_ret"

\* get_client lines 144-146: where get_client goes after validate_connection
AfterValidate(valid) == IF valid THEN "gc_ret" ELSE "conn_auth"

\* get_client line 148: self.connections.get(instance_name)
GetResult(conns, instance_name) ==
    IF instance_name \in DOMAIN conns THEN conns[instance_name] ELSE None

\* mutant: the availability test is missing
IsAvailableAlways(instance_name, names) == TRUE

\* switch_instance line 192: instance_name in self.get_available_instances()
IsAvailable(instance_name, names) == instance_name \in names

\* mutant: the switch leaves the active pointer as it is
SwitchedActiveKept(instance_name, active) == active

\* switch_instance line 200: the new value of self.active_instance
SwitchedActive(instance_name, active) == instance_name

\* mutant: the finally clause does not write the previous instance back
RestoredActiveKept(previous_instance, active) == active

\* instance_context line 358: the value the finally clause writes back
RestoredActive(previous_instance, active) == previous_instance

\* mutant: remove_instance does not test for the active instance
IsActiveNever(instance_name, active) == FALSE

\* remove_instance line 309: instance_name == self.active_instance
IsActive(instance_name, active) == instance_name = active

\* remove_instance_config: the names that have a configuration file once
\* the file of instance_name is removed; the default one is never removed
remove_instance_config(instance_name, cfgs) ==
    IF instance_name = "default" THEN cfgs ELSE Del(cfgs, instance_name)

\* remove_instance_config: its return value
config_removed(instance_name, cfgs) ==
    instance_name # "default" /\ instance_name \in DOMAIN cfgs

\* mutant: disconnect_all leaves the dictionary as it is
ClearedKept(d) == d

\* disconnect_all lines 402-404: a dictionary after clear()
Cleared(d) == EmptyDict

(* ------------------------------ state --------------------------------- *)

VARIABLES
    connections,            \* self.connections: name -> client id
    utils,                  \* self.utils: name -> id of the wrapped client
    connection_timestamps,  \* self.connection_timestamps: name -> time
    active_instance,        \* self.active_instance
    instance_names,         \* self._instance_names
    configs,                \* the configuration files: name -> the
                            \* cache_enabled setting of the file
    clients,                \* every OdooClient constructed, by id
    clock,                  \* time.time()
    calls,                  \* operations started so far
    scope_base,             \* history: the active pointer when the first of
                            \* the open instance_context scopes was entered
    th,                     \* the callers: position, locals, history
    cache_enabled,          \* OdooClient.cache_enabled of the client in use
    cache,                  \* OdooClient._cache: key -> result
    cache_timestamps,       \* OdooClient._cache_timestamps: key -> time
    ops,                    \* client operations started so far
    ct,                     \* the client's callers: position, locals, history
    tr,                     \* OdooConnect.request: position and locals
    bp,                     \* a batch read or write, of BatchProcessor or
                            \* of the batch tool: position, locals, history
    pp                      \* BatchProcessor.parallel_process: position,
                            \* locals, the pool's tasks, history

\* the fields of the client in use, its callers and its transport
client == <<cache_enabled, cache, cache_timestamps, ops, ct, tr>>

\* the batch processor's calls
batch == <<bp, pp>>

shared == <<connections, utils, connection_timestamps, active_instance,
            instance_names, configs, clients, clock, client, batch>>

registry == <<connections, utils, connection_timestamps, active_instance,
              instance_names, configs, clients, clock, calls, scope_base,
              client, batch>>

\* the registry and its callers
manager == <<connections, utils, connection_timestamps, active_instance,
             instance_names, configs, clients, calls, scope_base, th>>

vars == <<connections, utils, connection_timestamps, active_instance,
          instance_names, configs, clients, clock, calls, scope_base, th,
          cache_enabled, cache, cache_timestamps, ops, ct, tr, bp, pp>>

\* a caller that is executing nothing
Idle ==
    [pc |-> "idle", op |-> "none", arg |-> NoName, name |-> NoName,
     attempt |-> 0, newc |-> None, probec |-> None, prev |-> NoName,
     phase |-> "none",
     ret |-> None, ok |-> FALSE, raised |-> FALSE,
     \* history of the call, read by the properties only
     entryActive |-> NoName, rdActive |-> NoName, startClient |-> None,
     firstAuth |-> "none", valFailed |-> FALSE, stale |-> None,
     reconnects |-> 0, reauth |-> "none", probed |-> FALSE,
     downAtProbe |-> FALSE, authName |-> NoName, reads |-> 0,
     ov |-> FALSE, pre |-> None]

\* history: the registry as an operation finds it
Snapshot ==
    [connections |-> connections, utils |-> utils,
     connection_timestamps |-> connection_timestamps,
     active_instance |-> active_instance,
     instance_names |-> instance_names, configs |-> configs]

\* a caller of the client that is executing nothing
ClientIdle ==
    [pc |-> "idle", op |-> "none", model |-> NoArg, method |-> NoArg,
     max_age |-> [given |-> FALSE, value |-> 0], stage |-> "none",
     key |-> NoArg, result |-> <<>>, now |-> 0, it_size |-> 0,
     keys_to_remove |-> {}, cur |-> NoArg,
     ret |-> <<>>, error |-> "none",
     \* history of the operation, read by the properties only
     pre |-> [cache |-> EmptyDict, cache_timestamps |-> EmptyDict],
     remote |-> 0, remote_failed |-> FALSE, touched |-> FALSE,
     hit |-> FALSE, combined |-> "none", searched |-> "none",
     fetched |-> "none", fetched_result |-> <<>>]

\* a transport that is sending nothing
TransportIdle ==
    [pc |-> "idle", chain |-> <<>>, redirects |-> 0, host |-> "",
     handler |-> <<>>, hop |-> 0, sent |-> <<>>, outcome |-> "none"]

\* OdooClient.__init__ lines 56-59: the client under test before its
\* first call
ClientInit ==
    /\ cache = EmptyDict
    /\ cache_timestamps = EmptyDict
    /\ ops = 0
    /\ ct = [t \in Threads |-> ClientIdle]

\* no client is under test
ClientUnused ==
    /\ cache_enabled = TRUE
    /\ ClientInit

\* no request is under way
TransportUnused == tr = TransportIdle

\* a batch processor that is reading and writing nothing
BatchIdle ==
    [pc |-> "idle", op |-> "none", batch_size |-> 0,
     max_records |-> [given |-> FALSE, value |-> 0],
     process_batch |-> FALSE, total_records |-> 0, offset |-> 0,
     all_records |-> <<>>, processed_count |-> 0,
     n |-> 0, continue_on_error |-> FALSE, i |-> 0, j |-> 0,
     all_ids |-> <<>>, batch_ids |-> <<>>, errors |-> <<>>, count |-> 0,
     success |-> TRUE, ret |-> <<>>, returned |-> FALSE,
     operation |-> "none", values |-> FALSE,
     result |-> [success |-> TRUE, created_ids |-> <<>>,
                 total_created |-> 0, total_failed |-> 0, count |-> 0,
                 errors |-> <<>>],
     \* history of the call, read by the properties only
     counted |-> 0, count_failed |-> FALSE, probe |-> "none",
     fetches |-> <<>>, outcomes |-> <<>>, searched |-> "none",
     fields_failed |-> FALSE]

\* a fan-out that has not been called
ParallelIdle ==
    [pc |-> "idle", n |-> 0, max_workers |-> 0, k |-> 0, results |-> <<>>,
     task |-> <<>>, returned |-> FALSE, raised |-> FALSE,
     \* what process_func will do with each item, and history: the order
     \* in which the items finished and how many of them had finished when
     \* the last item was submitted
     fate |-> <<>>, finished |-> <<>>, early |-> 0]

\* no batch call is under way
BatchUnused ==
    /\ bp = BatchIdle
    /\ pp = ParallelIdle

\* __init__ and _initialize_instances
Init ==
    /\ ClientUnused
    /\ TransportUnused
    /\ BatchUnused
    /\ configs \in ConfigChoices
    /\ instance_names = list_available_instances(configs)
    /\ active_instance = InitialActive(list_available_instances(configs))
    /\ connections = EmptyDict
    /\ utils = EmptyDict
    /\ connection_timestamps = EmptyDict
    /\ clients = <<>>
    /\ clock = 0
    /\ calls = 0
    /\ scope_base = NoName
    /\ th = [t \in Threads |-> Idle]

\* the caller's record with the history of its last get_client forgotten
Forget(l) ==
    [l EXCEPT !.attempt = 0, !.newc = None, !.ret = None,
              !.startClient = None, !.firstAuth = "none",
              !.valFailed = FALSE, !.stale = None, !.reconnects = 0,
              !.reauth = "none", !.probed = FALSE, !.downAtProbe = FALSE,
              !.authName = NoName, !.reads = 0]

\* the caller is inside an operation
InFlight(l) == l.pc \notin {"idle", "done"}

\* the callers after caller t enters operation op at position pc; calls
\* that are in flight together are marked as overlapping
Enter(t, op, arg, pc) ==
    [u \in Threads |->
        IF u = t
        THEN [Idle EXCEPT !.pc = pc, !.op = op, !.arg = arg,
                          !.entryActive = active_instance,
                          !.ov = \E w \in Threads \ {t} : InFlight(th[w])]
        ELSE IF InFlight(th[u]) THEN [th[u] EXCEPT !.ov = TRUE] ELSE th[u]]

(* ----------------------- get_client, lines 126-148 -------------------- *)

\* the caller's record when its get_client returns r: the continuation in
\* the operation that called it, where the history of the call is of no
\* further use
GcReturn(l, r) ==
    LET m == [Forget(l) EXCEPT !.ret = r]
    IN CASE l.op = "get" ->
               [l EXCEPT !.pc = "done", !.ret = r, !.ok = (r # None)]
         [] l.op = "switch" ->
               IF r = None
               THEN [m EXCEPT !.pc = "done", !.ok = FALSE]
               ELSE [m EXCEPT !.pc = "sw_set"]
         [] l.phase = "utils" ->
               \* get_utils, lines 163-166, called in the body of a scope
               \* that goes on working with the client it was given
               IF r = None
               THEN [m EXCEPT !.pc = "ic_calls", !.ret = l.ret]
               ELSE [m EXCEPT !.pc = "gu_ret", !.ret = l.ret]
         [] OTHER ->
               IF r = None
               THEN [m EXCEPT !.pc = "ic_exit", !.raised = TRUE]
               ELSE IF l.phase = "switch"
               THEN [m EXCEPT !.pc = "sw_set"]
               ELSE [m EXCEPT !.pc = "ic_body"]

\* a caller calls get_client(arg), arg possibly omitted
CallGetClient(t) ==
    /\ th[t].pc = "idle"
    /\ calls < MaxCalls
    /\ calls' = calls + 1
    /\ \E a \in Names \cup {NoName} : th' = Enter(t, "get", a, "gc_name")
    /\ UNCHANGED <<shared, scope_base>>

\* line 136: the one read of the active pointer
GcName(t) ==
    /\ th[t].pc = "gc_name"
    /\ th' = [th EXCEPT ![t].pc = "gc_in",
                        ![t].name = ResolveName(th[t].arg, active_instance),
                        ![t].rdActive = IF th[t].arg = NoName
                                        THEN active_instance ELSE NoName,
                        ![t].reads = IF th[t].arg = NoName
                                     THEN th[t].reads + 1 ELSE th[t].reads]
    /\ UNCHANGED registry

\* line 139: instance_name not in self.connections
GcIn(t) ==
    /\ th[t].pc = "gc_in"
    /\ IF th[t].name \notin DOMAIN connections
       THEN th' = [th EXCEPT ![t].pc = "conn_auth", ![t].attempt = 1]
       ELSE th' = [th EXCEPT ![t].pc = "val_in",
                             ![t].startClient = connections[th[t].name]]
    /\ UNCHANGED registry

(* -------------------- _connect_instance, lines 54-95 ------------------ *)

\* the caller's record when its _connect_instance returns False: get_client
\* returns None (lines 141, 146), add_instance returns False (line 291)
ConnFailed(l) ==
    IF l.op = "add"
    THEN [l EXCEPT !.pc = "done", !.ok = FALSE]
    ELSE GcReturn(l, None)

\* the caller's record when its _connect_instance returns True: the first
\* connect of get_client goes on to validate (line 144), its reconnect to
\* the return (line 148), and add_instance returns True (line 291)
Connected(l) ==
    IF l.op = "add"
    THEN [l EXCEPT !.pc = "done", !.ok = TRUE]
    ELSE [l EXCEPT !.pc = IF l.attempt = 1 THEN "val_in" ELSE "gc_ret"]

\* lines 70-84: load the configuration, construct the client (which
\* authenticates against the remote side); any exception makes
\* _connect_instance return False
ConnAuth(t) ==
    /\ th[t].pc = "conn_auth"
    /\ LET l   == th[t]
           cfg == load_config(l.name, configs)
           m   == [l EXCEPT !.authName = l.name,
                            !.reconnects = IF l.valFailed THEN @ + 1 ELSE @]
           failed == IF l.valFailed
                     THEN [m EXCEPT !.reauth = "fail"]
                     ELSE [m EXCEPT !.firstAuth = "fail"]
           passed == IF l.valFailed
                     THEN [m EXCEPT !.reauth = "ok"]
                     ELSE [m EXCEPT !.firstAuth = "ok"]
       IN \E authenticated \in {a \in BOOLEAN : a => Len(clients) < MaxClients} :
            IF cfg # NoName /\ authenticated
            THEN /\ clients' = Append(clients,
                                 NewClient(l.name, cfg,
                                           cache_enabled_of(cfg, configs)))
                 /\ th' = [th EXCEPT ![t] =
                            [passed EXCEPT !.pc = "conn_s1",
                                           !.newc = Len(clients) + 1]]
            ELSE /\ clients' = clients
                 /\ th' = [th EXCEPT ![t] = ConnFailed(failed)]
    /\ UNCHANGED <<connections, utils, connection_timestamps, active_instance,
                   instance_names, configs, clock, calls, scope_base,
                   client, batch>>

\* line 87: self.connections[instance_name] = client
ConnStoreClient(t) ==
    /\ th[t].pc = "conn_s1"
    /\ connections' = Put(connections, th[t].name, th[t].newc)
    /\ th' = [th EXCEPT ![t].pc = "conn_s2"]
    /\ UNCHANGED <<utils, connection_timestamps, active_instance,
                   instance_names, configs, clients, clock, calls,
                   scope_base, client, batch>>

\* line 88: self.utils[instance_name] = utils
ConnStoreUtils(t) ==
    /\ th[t].pc = "conn_s2"
    /\ utils' = Put(utils, th[t].name, th[t].newc)
    /\ th' = [th EXCEPT ![t].pc = "conn_s3"]
    /\ UNCHANGED <<connections, connection_timestamps, active_instance,
                   instance_names, configs, clients, clock, calls,
                   scope_base, client, batch>>

\* line 89: self.connection_timestamps[instance_name] = time.time();
\* _connect_instance returns True
ConnStoreTimestamp(t) ==
    /\ th[t].pc = "conn_s3"
    /\ connection_timestamps' = Put(connection_timestamps, th[t].name, clock)
    /\ th' = [th EXCEPT ![t] = Connected(th[t])]
    /\ UNCHANGED <<connections, utils, active_instance, instance_names,
                   configs, clients, clock, calls,
                   scope_base, client, batch>>

(* ------------------- validate_connection, lines 97-124 ---------------- *)

\* the caller's record when validate_connection returns valid
Validated(l, valid) ==
    IF valid
    THEN [l EXCEPT !.pc = AfterValidate(TRUE)]
    ELSE [l EXCEPT !.pc = AfterValidate(FALSE), !.attempt = 2,
                   !.valFailed = TRUE,
                   !.stale = GetResult(connections, l.name)]

\* line 107: instance_name not in self.connections
ValIn(t) ==
    /\ th[t].pc = "val_in"
    /\ IF th[t].name \notin DOMAIN connections
       THEN th' = [th EXCEPT ![t] = Validated(th[t], FALSE)]
       ELSE th' = [th EXCEPT ![t].pc = "val_ts"]
    /\ UNCHANGED registry

\* lines 111-115: the age test
ValTimestamp(t) ==
    /\ th[t].pc = "val_ts"
    /\ IF /\ th[t].name \in DOMAIN connection_timestamps
          /\ TimestampExpired(clock, connection_timestamps[th[t].name])
       THEN th' = [th EXCEPT ![t] = Validated(th[t], FALSE)]
       ELSE th' = [th EXCEPT ![t].pc = "val_probe"]
    /\ UNCHANGED registry

\* the caller's record when the _execute of its call on the client
\* returns (succeeded) or raises: validate_connection returns True or, the
\* exception caught (line 122), False; the body of a scope ends or raises
ExecuteEnds(l, succeeded) ==
    IF l.phase = "body"
    THEN [l EXCEPT !.pc = "ic_exit", !.raised = ~succeeded,
                   !.ok = succeeded, !.probec = None]
    ELSE Validated([l EXCEPT !.probec = None], succeeded)

\* history: the state of the remote side at the probe of a get_client
ProbedWhile(l, down) ==
    IF l.phase = "body" THEN l ELSE [l EXCEPT !.downAtProbe = down]

\* lines 119-120 and _execute lines 100-102: read the client (a KeyError
\* is caught, line 122) and test `cache_key in self._cache` for the probe
ValProbe(t) ==
    /\ th[t].pc = "val_probe"
    /\ LET l == [th[t] EXCEPT !.probed = TRUE]
       IN IF l.name \notin DOMAIN connections
          THEN th' = [th EXCEPT ![t] = Validated(l, FALSE)]
          ELSE th' = [th EXCEPT ![t] =
                        [l EXCEPT !.probec = connections[l.name],
                                  !.pc = IF CacheHas(
                                              clients[connections[l.name]],
                                              ProbeKey)
                                         THEN "val_stamp" ELSE "val_remote"]]
    /\ UNCHANGED registry

\* _execute lines 104-105: the entry's timestamp is read (KeyError if the
\* storing caller has not written it yet) and its age compared with the
\* TTL.  On a hit no remote call is made: the remote side is up or down at
\* that moment all the same.  Nothing removes an entry from the cache of
\* a registered client, so line 105 finds the result.
ValStamp(t) ==
    /\ th[t].pc = "val_stamp"
    /\ LET l == th[t]
           cl == clients[l.probec]
       IN IF ProbeKey \notin DOMAIN cl.cache_ts
          THEN th' = [th EXCEPT ![t] = ExecuteEnds(l, FALSE)]
          ELSE IF CacheFresh(clock, cl.cache_ts[ProbeKey])
          THEN \E up \in BOOLEAN :
                 th' = [th EXCEPT ![t] = ExecuteEnds(ProbedWhile(l, ~up), TRUE)]
          ELSE th' = [th EXCEPT ![t].pc = "val_remote"]
    /\ UNCHANGED registry

\* _execute lines 117-126: the remote call; its exception is raised again,
\* its result is stored when the client caches
ValRemote(t) ==
    /\ th[t].pc = "val_remote"
    /\ LET l == th[t]
       IN \E up \in BOOLEAN :
            IF ~up
            THEN th' = [th EXCEPT ![t] = ExecuteEnds(ProbedWhile(l, TRUE), FALSE)]
            ELSE IF clients[l.probec].cache_enabled
            THEN th' = [th EXCEPT ![t].pc = "val_store"]
            ELSE th' = [th EXCEPT ![t] = ExecuteEnds(l, TRUE)]
    /\ UNCHANGED registry

\* _execute line 128: self._cache[cache_key] = result
ValStore(t) ==
    /\ th[t].pc = "val_store"
    /\ clients' = [clients EXCEPT
                     ![th[t].probec] = CacheStore(clients[th[t].probec],
                                                  ProbeKey)]
    /\ th' = [th EXCEPT ![t].pc = "val_store_ts"]
    /\ UNCHANGED <<connections, utils, connection_timestamps, active_instance,
                   instance_names, configs, clock, calls, scope_base,
                   client, batch>>

\* _execute lines 129-131: self._cache_timestamps[cache_key] = time.time(),
\* and the result is returned
ValStoreStamp(t) ==
    /\ th[t].pc = "val_store_ts"
    /\ clients' = [clients EXCEPT
                     ![th[t].probec] = CacheStamp(clients[th[t].probec],
                                                  ProbeKey, clock)]
    /\ th' = [th EXCEPT ![t] = ExecuteEnds(th[t], TRUE)]
    /\ UNCHANGED <<connections, utils, connection_timestamps, active_instance,
                   instance_names, configs, clock, calls, scope_base,
                   client, batch>>

\* line 148: return self.connections.get(instance_name)
GcRet(t) ==
    /\ th[t].pc = "gc_ret"
    /\ th' = [th EXCEPT ![t] =
                GcReturn(th[t], GetResult(connections, th[t].name))]
    /\ UNCHANGED registry

(* --------------------- switch_instance, lines 181-201 ----------------- *)

\* the caller's record when its switch_instance returns False
SwitchFailed(l) ==
    IF l.op = "switch"
    THEN [l EXCEPT !.pc = "done", !.ok = FALSE]
    ELSE [l EXCEPT !.pc = "ic_exit", !.raised = TRUE]

\* a caller calls switch_instance(name)
CallSwitch(t) ==
    /\ th[t].pc = "idle"
    /\ calls < MaxCalls
    /\ calls' = calls + 1
    /\ \E a \in Names : th' = Enter(t, "switch", a, "sw_in")
    /\ UNCHANGED <<shared, scope_base>>

\* lines 192-196: the availability test, then get_client(instance_name)
SwIn(t) ==
    /\ th[t].pc = "sw_in"
    /\ IF IsAvailable(th[t].arg, instance_names)
       THEN th' = [th EXCEPT ![t].pc = "gc_name"]
       ELSE th' = [th EXCEPT ![t] = SwitchFailed(th[t])]
    /\ UNCHANGED registry

\* line 200: self.active_instance = instance_name; inside instance_context
\* the switch is followed by get_client(instance_name) (line 351)
SwSet(t) ==
    /\ th[t].pc = "sw_set"
    /\ active_instance' = SwitchedActive(th[t].arg, active_instance)
    /\ th' = [th EXCEPT ![t] =
                IF th[t].op = "switch"
                THEN [th[t] EXCEPT !.pc = "done", !.ok = TRUE]
                ELSE [Forget(th[t]) EXCEPT !.pc = "gc_name", !.phase = "get"]]
    /\ UNCHANGED <<connections, utils, connection_timestamps, instance_names,
                   configs, clients, clock, calls,
                   scope_base, client, batch>>

(* -------------------- instance_context, lines 332-358 ----------------- *)

\* a caller enters `with instance_context(name)`
CallContext(t) ==
    /\ th[t].pc = "idle"
    /\ calls < MaxCalls
    /\ calls' = calls + 1
    /\ \E a \in Names : th' = Enter(t, "ctx", a, "ic_enter")
    /\ scope_base' = IF \E w \in Threads :
                            th[w].op = "ctx" /\ th[w].pc # "done"
                     THEN scope_base ELSE active_instance
    /\ UNCHANGED shared

\* line 343: previous_instance = self.active_instance
IcEnter(t) ==
    /\ th[t].pc = "ic_enter"
    /\ th' = [th EXCEPT ![t].pc = "sw_in", ![t].phase = "switch",
                        ![t].prev = active_instance]
    /\ UNCHANGED registry

\* line 355 and the body of the with statement.  In
\* execute_method_on_instance (multi_instance.py lines 227-243) it is
\* client.execute_method(model, method, ...) on the client the scope
\* yielded: a call that is the probe's own (res.users, read, the client's
\* uid, name) shares the probe's cache entry and runs through _execute
\* (lines 100-102 here); any other call returns or raises and leaves that
\* entry alone.  In search_records_in_instance (lines 286-329) it starts
\* with get_utils(instance_name) (line 294), that is with another
\* get_client for the scope's name.
IcBody(t) ==
    /\ th[t].pc = "ic_body"
    /\ \/ \E fails \in BOOLEAN :
            th' = [th EXCEPT ![t].pc = "ic_exit", ![t].raised = fails,
                             ![t].ok = ~fails, ![t].phase = "body"]
       \/ th' = [th EXCEPT ![t].phase = "body", ![t].probec = th[t].ret,
                           ![t].pc = IF CacheHas(clients[th[t].ret], ProbeKey)
                                     THEN "val_stamp" ELSE "val_remote"]
       \/ th' = [th EXCEPT ![t] =
                   [Forget(th[t]) EXCEPT !.ret = th[t].ret,
                                         !.pc = "gc_name",
                                         !.phase = "utils"]]
    /\ UNCHANGED registry

\* get_utils line 166: return self.utils.get(instance_name); the tool
\* keeps the result in a variable it does not use
GuRet(t) ==
    /\ th[t].pc = "gu_ret"
    /\ th' = [th EXCEPT ![t].pc = "ic_calls"]
    /\ UNCHANGED registry

\* multi_instance.py lines 296-329: the rest of the body of
\* search_records_in_instance, calls on the client the scope yielded
\* (fields_get, search_count, search_read) that return or raise and leave
\* the probe's cache entry alone
IcCalls(t) ==
    /\ th[t].pc = "ic_calls"
    /\ \E fails \in BOOLEAN :
         th' = [th EXCEPT ![t].pc = "ic_exit", ![t].raised = fails,
                          ![t].ok = ~fails, ![t].phase = "body"]
    /\ UNCHANGED registry

\* lines 356-358: finally: self.active_instance = previous_instance
IcExit(t) ==
    /\ th[t].pc = "ic_exit"
    /\ active_instance' = RestoredActive(th[t].prev, active_instance)
    /\ th' = [th EXCEPT ![t].pc = "done"]
    /\ UNCHANGED <<connections, utils, connection_timestamps, instance_names,
                   configs, clients, clock, calls,
                   scope_base, client, batch>>

(* --------------------- remove_instance, lines 293-330 ----------------- *)

\* a caller calls remove_instance(name): a name that is unknown or active
\* is refused; otherwise the connection, the name and the configuration
\* file are removed
RemoveInstance(t) ==
    /\ th[t].pc = "idle"
    /\ calls < MaxCalls
    /\ calls' = calls + 1
    /\ \E a \in Names :
         LET refused == \/ a \notin instance_names
                        \/ IsActive(a, active_instance)
         IN /\ th' = [Enter(t, "remove", a, "done") EXCEPT
                        ![t].pre = Snapshot,
                        ![t].ok = ~refused /\ config_removed(a, configs)]
            /\ IF refused
               THEN UNCHANGED <<connections, utils, connection_timestamps,
                                instance_names, configs>>
               ELSE /\ connections' = Del(connections, a)
                    /\ utils' = Del(utils, a)
                    /\ connection_timestamps' = Del(connection_timestamps, a)
                    /\ instance_names' = instance_names \ {a}
                    /\ configs' = remove_instance_config(a, configs)
    /\ UNCHANGED <<active_instance, clients, clock, scope_base, client, batch>>

(* ----------------------- add_instance, lines 248-291 ------------------ *)

\* a caller calls add_instance(name, url, db, username, password), with or
\* without cache_enabled=False among the keyword arguments: a known name
\* is refused; otherwise the configuration file is written, the name joins
\* the known names and _connect_instance(name) follows
AddInstance(t) ==
    /\ th[t].pc = "idle"
    /\ calls < MaxCalls
    /\ calls' = calls + 1
    /\ \E a \in Names, enabled \in BOOLEAN :
         IF a \in instance_names
         THEN /\ th' = [Enter(t, "add", a, "done") EXCEPT
                          ![t].pre = Snapshot, ![t].ok = FALSE]
              /\ UNCHANGED <<instance_names, configs>>
         ELSE /\ th' = [Enter(t, "add", a, "conn_auth") EXCEPT
                          ![t].pre = Snapshot, ![t].name = a,
                          ![t].attempt = 1]
              /\ configs' = add_instance_config(a, enabled, configs)
              /\ instance_names' = instance_names \cup {a}
    /\ UNCHANGED <<connections, utils, connection_timestamps, active_instance,
                   clients, clock, scope_base, client, batch>>

(* -------------------- disconnect_instance, lines 378-398 -------------- *)

\* a caller calls disconnect_instance(name): a name without a connection
\* is refused; otherwise its client, utils and timestamp are dropped
DisconnectInstance(t) ==
    /\ th[t].pc = "idle"
    /\ calls < MaxCalls
    /\ calls' = calls + 1
    /\ \E a \in Names :
         /\ th' = [Enter(t, "disconnect_instance", a, "done") EXCEPT
                     ![t].pre = Snapshot,
                     ![t].ok = (a \in DOMAIN connections)]
         /\ IF a \notin DOMAIN connections
            THEN UNCHANGED <<connections, utils, connection_timestamps>>
            ELSE /\ connections' = Del(connections, a)
                 /\ utils' = Del(utils, a)
                 /\ connection_timestamps' = Del(connection_timestamps, a)
    /\ UNCHANGED <<active_instance, instance_names, configs, clients, clock,
                   scope_base, client, batch>>

(* ---------------------- disconnect_all, lines 400-404 ----------------- *)

\* a caller calls disconnect_all()
DisconnectAll(t) ==
    /\ th[t].pc = "idle"
    /\ calls < MaxCalls
    /\ calls' = calls + 1
    /\ th' = [Enter(t, "disconnect", NoName, "done") EXCEPT
                ![t].pre = Snapshot, ![t].ok = TRUE]
    /\ connections' = Cleared(connections)
    /\ utils' = Cleared(utils)
    /\ connection_timestamps' = Cleared(connection_timestamps)
    /\ UNCHANGED <<active_instance, instance_names, configs, clients, clock,
                   scope_base, client, batch>>

(* ================= OdooClient, the client under test ================== *)

\* what no operation of the client changes
kept == <<cache_enabled, clock, manager, tr, batch>>

\* history: the cache as an operation finds it
CacheSnapshot == [cache |-> cache, cache_timestamps |-> cache_timestamps]

\* the caller's record at the start of operation op
Begin(op, pc, model, method) ==
    [ClientIdle EXCEPT !.op = op, !.pc = pc, !.model = model,
                       !.method = method, !.now = clock,
                       !.pre = CacheSnapshot]

\* the caller's record when an operation that is not a remote call ends,
\* with an exception or without
Finished(l, err) == [l EXCEPT !.pc = "done", !.error = err]

(* ------------------------- _execute, lines 97-131 --------------------- *)

\* the caller's record when its _execute returns value or raises err: the
\* continuation in execute_method (line 146) or in search_read (lines
\* 294-325), where any exception of the combined call starts the fallback
\* and any exception of the fallback makes search_read return []
ExReturn(l, value, err) ==
    CASE l.op = "execute" ->
            [l EXCEPT !.pc = "done", !.ret = value, !.error = err]
      [] l.stage = "combined" ->
            IF err = "none"
            THEN [l EXCEPT !.pc = "done", !.ret = value, !.combined = "ok"]
            ELSE [l EXCEPT !.pc = "ex_begin", !.stage = "search",
                           !.method = search, !.combined = "rejected"]
      [] l.stage = "search" ->
            IF err # "none"
            THEN [l EXCEPT !.pc = "done", !.ret = <<>>, !.searched = "fail"]
            ELSE IF value = <<>>
            THEN [l EXCEPT !.pc = "done", !.ret = <<>>, !.searched = "empty"]
            ELSE [l EXCEPT !.pc = "ex_begin", !.stage = "read",
                           !.method = read, !.searched = "ids"]
      [] OTHER ->
            IF err # "none"
            THEN [l EXCEPT !.pc = "done", !.ret = <<>>, !.fetched = "fail"]
            ELSE [l EXCEPT !.pc = "done", !.ret = value, !.fetched = "ok",
                           !.fetched_result = value]

\* a caller calls execute_method(model, method, ...)
CallExecute(t) ==
    /\ ct[t].pc = "idle"
    /\ ops < MaxOps
    /\ ops' = ops + 1
    /\ \E m \in Models, me \in Methods :
         ct' = [ct EXCEPT ![t] =
                  [Begin("execute", "ex_begin", m, me) EXCEPT
                     !.stage = "direct"]]
    /\ UNCHANGED <<kept, cache, cache_timestamps>>

\* lines 100-102: for a cached method of a caching client, the key and
\* the test `cache_key in self._cache`
ExBegin(t) ==
    /\ ct[t].pc = "ex_begin"
    /\ LET l == ct[t]
           k == cache_key(l.model, l.method)
       IN IF cache_enabled /\ IsCacheable(l.method)
          THEN ct' = [ct EXCEPT ![t] =
                        [l EXCEPT !.key = k, !.touched = TRUE,
                                  !.pc = IF k \in DOMAIN cache
                                         THEN "ex_stamp" ELSE "ex_remote"]]
          ELSE ct' = [ct EXCEPT ![t].pc = "ex_remote"]
    /\ UNCHANGED <<kept, ops, cache, cache_timestamps>>

\* line 104: the entry's timestamp is read (KeyError if it is missing)
\* and its age compared with the TTL
ExStamp(t) ==
    /\ ct[t].pc = "ex_stamp"
    /\ LET l == ct[t]
       IN IF l.key \notin DOMAIN cache_timestamps
          THEN ct' = [ct EXCEPT ![t] = ExReturn(l, Failure, "KeyError")]
          ELSE ct' = [ct EXCEPT ![t].pc =
                        IF StillValid(clock, cache_timestamps[l.key],
                                      client_ttl)
                        THEN "ex_hit" ELSE "ex_remote"]
    /\ UNCHANGED <<kept, ops, cache, cache_timestamps>>

\* line 105: return self._cache[cache_key] (KeyError if it is missing)
ExHit(t) ==
    /\ ct[t].pc = "ex_hit"
    /\ LET l == ct[t]
       IN IF l.key \notin DOMAIN cache
          THEN ct' = [ct EXCEPT ![t] = ExReturn(l, Failure, "KeyError")]
          ELSE ct' = [ct EXCEPT ![t] =
                        ExReturn([l EXCEPT !.hit = TRUE], cache[l.key],
                                 "none")]
    /\ UNCHANGED <<kept, ops, cache, cache_timestamps>>

\* lines 117-126: the remote call; its exception is raised again, its
\* result is stored when the method is a cached one
ExRemote(t) ==
    /\ ct[t].pc = "ex_remote"
    /\ \E answer \in Results \cup {Failure} :
         LET l == [ct[t] EXCEPT !.remote = @ + 1,
                                !.remote_failed = (answer = Failure)]
         IN IF StoresResult(answer # Failure, cache_enabled, l.method)
            THEN ct' = [ct EXCEPT ![t] =
                          [l EXCEPT !.pc = "ex_store", !.result = answer,
                                    !.key = cache_key(l.model, l.method)]]
            ELSE IF answer = Failure
            THEN ct' = [ct EXCEPT ![t] = ExReturn(l, Failure, "RemoteError")]
            ELSE ct' = [ct EXCEPT ![t] = ExReturn(l, answer, "none")]
    /\ UNCHANGED <<kept, ops, cache, cache_timestamps>>

\* line 128: self._cache[cache_key] = result
ExStoreResult(t) ==
    /\ ct[t].pc = "ex_store"
    /\ cache' = Put(cache, ct[t].key, ct[t].result)
    /\ ct' = [ct EXCEPT ![t].pc = "ex_store_ts"]
    /\ UNCHANGED <<kept, ops, cache_timestamps>>

\* lines 129-131: self._cache_timestamps[cache_key] = time.time(), and
\* the result is returned
ExStoreStamp(t) ==
    /\ ct[t].pc = "ex_store_ts"
    /\ cache_timestamps' = Put(cache_timestamps, ct[t].key, clock)
    /\ ct' = [ct EXCEPT ![t] =
                ExReturn(ct[t], ct[t].result,
                         IF ct[t].result = Failure THEN "RemoteError"
                         ELSE "none")]
    /\ UNCHANGED <<kept, ops, cache>>

(* ------------------------ search_read, lines 248-325 ------------------ *)

\* a caller calls search_read(model_name, domain, ...): a domain that is
\* not a list of lists raises ValueError (line 278), which the outer
\* handler turns into [] (lines 323-325); otherwise the combined call is
\* made (line 295)
CallSearchRead(t) ==
    /\ ct[t].pc = "idle"
    /\ ops < MaxOps
    /\ ops' = ops + 1
    /\ \E m \in Models, domain_ok \in BOOLEAN :
         ct' = [ct EXCEPT ![t] =
                  IF domain_ok
                  THEN [Begin("search_read", "ex_begin", m, search_read)
                          EXCEPT !.stage = "combined"]
                  ELSE [Begin("search_read", "done", m, search_read)
                          EXCEPT !.stage = "domain"]]
    /\ UNCHANGED <<kept, cache, cache_timestamps>>

(* ------------------------ clear_cache, lines 410-437 ------------------ *)

\* a caller calls clear_cache(model, method), each possibly omitted
CallClearCache(t) ==
    /\ ct[t].pc = "idle"
    /\ ops < MaxOps
    /\ ops' = ops + 1
    /\ \E m \in {NoArg, partner}, me \in {NoArg, search} :
         ct' = [ct EXCEPT ![t] =
                  Begin("clear_cache",
                        IF ~cache_enabled THEN "done"
                        ELSE IF m # NoArg THEN "cc_iter" ELSE "cc_clear",
                        m, me)]
    /\ UNCHANGED <<kept, cache, cache_timestamps>>

\* lines 423 and 430: the iteration over self._cache.keys() starts
CcIter(t) ==
    /\ ct[t].pc = "cc_iter"
    /\ ct' = [ct EXCEPT ![t].pc = "cc_iter_end",
                        ![t].it_size = Cardinality(DOMAIN cache)]
    /\ UNCHANGED <<kept, ops, cache, cache_timestamps>>

\* lines 423 and 430: the iteration ends, with RuntimeError if the dict
\* changed size meanwhile, else with keys_to_remove
CcIterEnd(t) ==
    /\ ct[t].pc = "cc_iter_end"
    /\ LET l == ct[t]
           ks == ClearKeys(cache, l.model, l.method)
       IN IF Cardinality(DOMAIN cache) # l.it_size
          THEN ct' = [ct EXCEPT ![t] = Finished(l, "RuntimeError")]
          ELSE IF ks = {}
          THEN ct' = [ct EXCEPT ![t] = Finished(l, "none")]
          ELSE ct' = [ct EXCEPT ![t].pc = "cc_del",
                                ![t].keys_to_remove = ks]
    /\ UNCHANGED <<kept, ops, cache, cache_timestamps>>

\* lines 425 and 432: del self._cache[key] (KeyError if it is missing)
CcDel(t) ==
    /\ ct[t].pc = "cc_del"
    /\ \E k \in ct[t].keys_to_remove :
         IF k \notin DOMAIN cache
         THEN /\ ct' = [ct EXCEPT ![t] = Finished(ct[t], "KeyError")]
              /\ cache' = cache
         ELSE /\ ct' = [ct EXCEPT ![t].pc = "cc_test_ts", ![t].cur = k,
                                  ![t].keys_to_remove = @ \ {k}]
              /\ cache' = Del(cache, k)
    /\ UNCHANGED <<kept, ops, cache_timestamps>>

\* the caller's record when one key of clear_cache's loop is dealt with
CcNext(l) ==
    IF l.keys_to_remove = {}
    THEN Finished(l, "none")
    ELSE [l EXCEPT !.pc = "cc_del"]

\* lines 426 and 433: if key in self._cache_timestamps
CcTestStamp(t) ==
    /\ ct[t].pc = "cc_test_ts"
    /\ ct' = [ct EXCEPT ![t] =
                IF ct[t].cur \in DOMAIN cache_timestamps
                THEN [ct[t] EXCEPT !.pc = "cc_del_ts"]
                ELSE CcNext(ct[t])]
    /\ UNCHANGED <<kept, ops, cache, cache_timestamps>>

\* lines 427 and 434: del self._cache_timestamps[key] (KeyError if it is
\* missing by now)
CcDelStamp(t) ==
    /\ ct[t].pc = "cc_del_ts"
    /\ IF ct[t].cur \notin DOMAIN cache_timestamps
       THEN /\ ct' = [ct EXCEPT ![t] = Finished(ct[t], "KeyError")]
            /\ cache_timestamps' = cache_timestamps
       ELSE /\ cache_timestamps' = Del(cache_timestamps, ct[t].cur)
            /\ ct' = [ct EXCEPT ![t] = CcNext(ct[t])]
    /\ UNCHANGED <<kept, ops, cache>>

\* line 436: self._cache.clear()
CcClearCache(t) ==
    /\ ct[t].pc = "cc_clear"
    /\ cache' = EmptyDict
    /\ ct' = [ct EXCEPT ![t].pc = "cc_clear_ts"]
    /\ UNCHANGED <<kept, ops, cache_timestamps>>

\* line 437: self._cache_timestamps.clear()
CcClearStamps(t) ==
    /\ ct[t].pc = "cc_clear_ts"
    /\ cache_timestamps' = EmptyDict
    /\ ct' = [ct EXCEPT ![t] = Finished(ct[t], "none")]
    /\ UNCHANGED <<kept, ops, cache>>

(* -------------------- invalidate_old_cache, lines 439-460 ------------- *)

\* a caller calls invalidate_old_cache(max_age), max_age possibly
\* omitted; lines 449-450 read the clock and settle max_age
CallInvalidateOld(t) ==
    /\ ct[t].pc = "idle"
    /\ ops < MaxOps
    /\ ops' = ops + 1
    /\ \E a \in MaxAges :
         ct' = [ct EXCEPT ![t] =
                  [Begin("invalidate_old_cache",
                         IF cache_enabled THEN "ioc_iter" ELSE "done",
                         NoArg, NoArg)
                     EXCEPT !.max_age = a, !.now = clock]]
    /\ UNCHANGED <<kept, cache, cache_timestamps>>

\* line 453: the iteration over self._cache_timestamps.items() starts
IocIter(t) ==
    /\ ct[t].pc = "ioc_iter"
    /\ ct' = [ct EXCEPT ![t].pc = "ioc_iter_end",
                        ![t].it_size = Cardinality(DOMAIN cache_timestamps)]
    /\ UNCHANGED <<kept, ops, cache, cache_timestamps>>

\* lines 453-455: the iteration ends, with RuntimeError if the dict
\* changed size meanwhile, else with keys_to_remove
IocIterEnd(t) ==
    /\ ct[t].pc = "ioc_iter_end"
    /\ LET l == ct[t]
           ks == SweepKeys(cache_timestamps, l.now,
                           EffectiveMaxAge(l.max_age, client_ttl))
       IN IF Cardinality(DOMAIN cache_timestamps) # l.it_size
          THEN ct' = [ct EXCEPT ![t] = Finished(l, "RuntimeError")]
          ELSE IF ks = {}
          THEN ct' = [ct EXCEPT ![t] = Finished(l, "none")]
          ELSE ct' = [ct EXCEPT ![t].pc = "ioc_test",
                                ![t].keys_to_remove = ks]
    /\ UNCHANGED <<kept, ops, cache, cache_timestamps>>

\* lines 457-458: the next key, and if key in self._cache
IocTest(t) ==
    /\ ct[t].pc = "ioc_test"
    /\ \E k \in ct[t].keys_to_remove :
         ct' = [ct EXCEPT ![t].pc = IF k \in DOMAIN cache
                                    THEN "ioc_del" ELSE "ioc_del_ts",
                          ![t].cur = k,
                          ![t].keys_to_remove = @ \ {k}]
    /\ UNCHANGED <<kept, ops, cache, cache_timestamps>>

\* line 459: del self._cache[key] (KeyError if it is missing by now)
IocDel(t) ==
    /\ ct[t].pc = "ioc_del"
    /\ IF ct[t].cur \notin DOMAIN cache
       THEN /\ ct' = [ct EXCEPT ![t] = Finished(ct[t], "KeyError")]
            /\ cache' = cache
       ELSE /\ cache' = Del(cache, ct[t].cur)
            /\ ct' = [ct EXCEPT ![t].pc = "ioc_del_ts"]
    /\ UNCHANGED <<kept, ops, cache_timestamps>>

\* line 460: del self._cache_timestamps[key] (KeyError if it is missing)
IocDelStamp(t) ==
    /\ ct[t].pc = "ioc_del_ts"
    /\ IF ct[t].cur \notin DOMAIN cache_timestamps
       THEN /\ ct' = [ct EXCEPT ![t] = Finished(ct[t], "KeyError")]
            /\ cache_timestamps' = cache_timestamps
       ELSE /\ cache_timestamps' = Del(cache_timestamps, ct[t].cur)
            /\ ct' = [ct EXCEPT ![t] =
                        IF ct[t].keys_to_remove = {}
                        THEN Finished(ct[t], "none")
                        ELSE [ct[t] EXCEPT !.pc = "ioc_test"]]
    /\ UNCHANGED <<kept, ops, cache>>

\* the caller takes its result and is free for the next operation
ClientReturn(t) ==
    /\ ct[t].pc = "done"
    /\ ct' = [ct EXCEPT ![t] = ClientIdle]
    /\ UNCHANGED <<kept, ops, cache, cache_timestamps>>

\* time passes between two operations of the client
ClientTick ==
    /\ \A t \in Threads : ct[t].pc \in {"idle", "done"}
    /\ \E now \in ClientTimes :
         /\ now > clock
         /\ clock' = now
    /\ UNCHANGED <<manager, client, batch>>

(* ================ OdooConnect.request, lines 494-516 ================== *)

\* a proxy calls request(host, handler, ...); the server and those it
\* redirects to will answer with a chain of redirects and a final response
TrCall ==
    /\ tr.pc = "idle"
    /\ \E n \in 0..MaxChain, final \in Finals :
         \E rs \in Redirects(n) :
            tr' = [TransportIdle EXCEPT
                     !.pc = "loop", !.chain = Append(rs, final),
                     !.host = "erp.example.com",
                     !.handler = <<"/xmlrpc/2/object">>]
    /\ UNCHANGED <<manager, clock, cache_enabled, cache, cache_timestamps,
                   ops, ct, batch>>

\* line 497: while redirects < self.max_redirects; line 516 after the loop
TrLoop ==
    /\ tr.pc = "loop"
    /\ IF MayRequest(tr.redirects)
       THEN tr' = [tr EXCEPT !.pc = "send"]
       ELSE tr' = [tr EXCEPT !.pc = "done", !.outcome = "too_many_redirects"]
    /\ UNCHANGED <<manager, clock, cache_enabled, cache, cache_timestamps,
                   ops, ct, batch>>

\* lines 498-514: one request; a redirect with a location is counted and
\* followed, anything else ends the call
TrSend ==
    /\ tr.pc = "send"
    /\ LET response == tr.chain[tr.hop + 1]
           l == [tr EXCEPT !.hop = @ + 1,
                           !.sent = Append(@, <<tr.host, tr.handler>>)]
       IN IF Followed(response)
          THEN tr' = [l EXCEPT !.pc = "loop", !.redirects = @ + 1,
                               !.host = RedirectedHost(tr.host, response),
                               !.handler = RedirectedHandler(response)]
          ELSE tr' = [l EXCEPT !.pc = "done",
                               !.outcome = IF response.code = 200 THEN "ok"
                                           ELSE "error"]
    /\ UNCHANGED <<manager, clock, cache_enabled, cache, cache_timestamps,
                   ops, ct, batch>>

(* ------------------------- the environment ---------------------------- *)

\* the caller takes its result and is free for the next operation
Return(t) ==
    /\ th[t].pc = "done"
    /\ th' = [th EXCEPT ![t] = Idle]
    /\ scope_base' = IF \E w \in Threads \ {t} :
                            th[w].op = "ctx" /\ th[w].pc # "done"
                     THEN scope_base ELSE NoName
    /\ UNCHANGED <<shared, calls>>

\* time passes between two operations (the steps of one operation are
\* milliseconds apart, the clock readings minutes)
Tick ==
    /\ \A t \in Threads : ~InFlight(th[t])
    /\ \E now \in TimePoints :
         /\ now > clock
         /\ clock' = now
    /\ UNCHANGED <<connections, utils, connection_timestamps, active_instance,
                   instance_names, configs, clients, calls, scope_base,
                   th, client, batch>>

(* -------------------------- specifications ---------------------------- *)

\* one step of caller t that is not the return to the next operation
Work(t) ==
    \/ CallGetClient(t)
    \/ GcName(t)
    \/ GcIn(t)
    \/ ConnAuth(t)
    \/ ConnStoreClient(t)
    \/ ConnStoreUtils(t)
    \/ ConnStoreTimestamp(t)
    \/ ValIn(t)
    \/ ValTimestamp(t)
    \/ ValProbe(t)
    \/ ValStamp(t)
    \/ ValRemote(t)
    \/ ValStore(t)
    \/ ValStoreStamp(t)
    \/ GcRet(t)
    \/ CallSwitch(t)
    \/ SwIn(t)
    \/ SwSet(t)
    \/ CallContext(t)
    \/ IcEnter(t)
    \/ IcBody(t)
    \/ GuRet(t)
    \/ IcCalls(t)
    \/ IcExit(t)

\* one step of caller t
Step(t) ==
    \/ Work(t)
    \/ Return(t)

\* one bookkeeping operation of caller t
Admin(t) ==
    \/ AddInstance(t)
    \/ RemoveInstance(t)
    \/ DisconnectInstance(t)
    \/ DisconnectAll(t)

\* one caller, and time
NextSeq ==
    \/ Step("t1")
    \/ Admin("t1")
    \/ Tick

SpecSeq == Init /\ [][NextSeq]_vars

\* two callers, one operation each, interleaved in any way at one clock
\* reading
NextConc == \E t \in Threads : Work(t)

SpecConc == Init /\ [][NextConc]_vars

(* ------------------- refresh_instances, lines 360-376 ----------------- *)

\* lines 374-376: an active instance that is no longer known gives way to
\* the first known one
RefreshedActive(active, instances) ==
    IF active \notin instances /\ instances # {}
    THEN SortedFirst(instances)
    ELSE active

\* a caller calls refresh_instances(): the known names are read again from
\* the configuration files and the connections of names no longer known are
\* dropped
RefreshInstances(t) ==
    /\ th[t].pc = "idle"
    /\ calls < MaxCalls
    /\ calls' = calls + 1
    /\ LET names == list_available_instances(configs)
           gone == (DOMAIN connections) \ names
       IN /\ instance_names' = names
          /\ connections' = DelAll(connections, gone)
          /\ utils' = DelAll(utils, gone)
          /\ connection_timestamps' = DelAll(connection_timestamps, gone)
          /\ active_instance' = RefreshedActive(active_instance, names)
    /\ th' = [Enter(t, "refresh", NoName, "done") EXCEPT
                ![t].pre = Snapshot, ![t].ok = TRUE]
    /\ UNCHANGED <<configs, clients, clock, scope_base, client, batch>>

\* the first caller is between two operations or in its open scope and
\* inside none of its calls: before the body's first call, between its
\* get_utils and its other calls, or after the last call has returned or
\* raised, before the finally clause of line 356 restores the pointer
Between ==
    th["t1"].pc \in {"idle", "done", "ic_body", "gu_ret", "ic_calls", "ic_exit"}

\* the steps of _connect_instance
Connect(t) ==
    \/ ConnAuth(t)
    \/ ConnStoreClient(t)
    \/ ConnStoreUtils(t)
    \/ ConnStoreTimestamp(t)

\* one caller gets clients, switches and opens scopes; the bookkeeping
\* operations, issued in the name of a second caller, fall between two
\* operations of the first or in its open scope up to the finally clause,
\* never inside one of its calls, and run to their end before the first
\* caller goes on
NextScoped ==
    \/ ~InFlight(th["t2"]) /\ Step("t1")
    \/ Between /\ Admin("t2")
    \/ Between /\ RefreshInstances("t2")
    \/ Connect("t2")
    \/ Return("t2")

SpecScoped == Init /\ [][NextScoped]_vars

\* a registry nobody calls
ManagerUnused ==
    /\ configs = [n \in {"default"} |-> TRUE]
    /\ instance_names = list_available_instances(configs)
    /\ active_instance = InitialActive(list_available_instances(configs))
    /\ connections = EmptyDict
    /\ utils = EmptyDict
    /\ connection_timestamps = EmptyDict
    /\ clients = <<>>
    /\ calls = 0
    /\ scope_base = NoName
    /\ th = [t \in Threads |-> Idle]

\* a client constructed with caching enabled or disabled
InitClient ==
    /\ cache_enabled \in BOOLEAN
    /\ ClientInit
    /\ clock = 0
    /\ ManagerUnused
    /\ TransportUnused
    /\ BatchUnused

\* a transport before its first request
InitTransport ==
    /\ TransportUnused
    /\ BatchUnused
    /\ ClientUnused
    /\ clock = 0
    /\ ManagerUnused

\* one step of a request
NextTransport ==
    \/ TrCall
    \/ TrLoop
    \/ TrSend

SpecTransport == InitTransport /\ [][NextTransport]_vars

\* one step of caller t of the client that is not the return to the next
\* operation
ClientWork(t) ==
    \/ CallExecute(t)
    \/ ExBegin(t)
    \/ ExStamp(t)
    \/ ExHit(t)
    \/ ExRemote(t)
    \/ ExStoreResult(t)
    \/ ExStoreStamp(t)
    \/ CallSearchRead(t)
    \/ CallClearCache(t)
    \/ CcIter(t)
    \/ CcIterEnd(t)
    \/ CcDel(t)
    \/ CcTestStamp(t)
    \/ CcDelStamp(t)
    \/ CcClearCache(t)
    \/ CcClearStamps(t)
    \/ CallInvalidateOld(t)
    \/ IocIter(t)
    \/ IocIterEnd(t)
    \/ IocTest(t)
    \/ IocDel(t)
    \/ IocDelStamp(t)

\* one step of caller t of the client
ClientStep(t) ==
    \/ ClientWork(t)
    \/ ClientReturn(t)

\* one caller of the client, and time
NextClient ==
    \/ ClientStep("t1")
    \/ ClientTick

SpecClient == InitClient /\ [][NextClient]_vars

\* the keys that earlier calls may have left in the cache
WarmKeys == {cache_key(partner, search), cache_key(partner_bank, search_read)}

\* a caching client some time after earlier calls, made when the clock
\* read 0, left their results in its cache
InitClientWarm ==
    /\ cache_enabled = TRUE
    /\ \E ks \in SUBSET WarmKeys :
         /\ cache = [k \in ks |-> <<"rec">>]
         /\ cache_timestamps = [k \in ks |-> 0]
    /\ ops = 0
    /\ ct = [t \in Threads |-> ClientIdle]
    /\ clock \in ClientTimes
    /\ ManagerUnused
    /\ TransportUnused
    /\ BatchUnused

\* two callers of one client, one operation each, interleaved in any way
\* at one clock reading
NextClientConc == \E t \in Threads : ClientWork(t)

SpecClientConc == InitClientWarm /\ [][NextClientConc]_vars

\* two operations on one client, the second called after the first has
\* returned, at one clock reading
NextClientTurns ==
    \/ ClientWork("t1")
    \/ ct["t1"].pc = "done" /\ ClientWork("t2")

SpecClientTurns == InitClientWarm /\ [][NextClientTurns]_vars

(* ============ BatchProcessor, batch_processor.py lines 16-608 ========= *)

\* the largest record count the remote reports to a paginated read
MaxTotal == 5

\* BatchProcessor.__init__ line 30: the batch size the processor was
\* constructed with
self_batch_size == 2

\* the batch_size argument of a call; 0 stands for an omitted one
BatchSizeArgs == {0, 1, 3}

\* line 57 and lines 396, 473, 550: batch_size or self.batch_size
EffectiveBatchSize(batch_size) ==
    IF batch_size # 0 THEN batch_size ELSE self_batch_size

\* the max_records argument of batch_search_read: omitted or a number
MaxRecordsChoices ==
    {[given |-> FALSE, value |-> 0], [given |-> TRUE, value |-> 0],
     [given |-> TRUE, value |-> 3]}

Min(a, b) == IF a <= b THEN a ELSE b

\* lines 69-70
CappedTotal(total_records, max_records) ==
    IF max_records.given THEN Min(total_records, max_records.value)
    ELSE total_records

EstimatedTotalNone(batch_size) == 0

\* line 67: after a successful probe one batch is assumed
EstimatedTotal(batch_size) == batch_size

CurrentBatchSizeFull(batch_size, total_records, offset) == batch_size

\* line 78
CurrentBatchSize(batch_size, total_records, offset) ==
    Min(batch_size, total_records - offset)

\* line 106
ReachedMax(max_records, processed_count) ==
    max_records.given /\ processed_count >= max_records.value

\* the records a fetch returns, named by their position in the result set
Records(offset, got) == [k \in 1..got |-> offset + k - 1]

\* what no batch read or write changes
outside == <<manager, clock, client, pp>>

\* a batch call has ended, by returning
Ended(l, value) == [l EXCEPT !.pc = "done", !.returned = TRUE, !.ret = value]

(* ---------------- batch_search_read, lines 32-114 --------------------- *)

\* batch_search_read(model, domain, batch_size=..., max_records=...,
\* process_batch=...); line 57
BsrCall ==
    /\ bp.pc = "idle"
    /\ \E size \in BatchSizeArgs, max_records \in MaxRecordsChoices,
          process_batch \in BOOLEAN :
         bp' = [BatchIdle EXCEPT
                  !.pc = "count", !.op = "batch_search_read",
                  !.batch_size = EffectiveBatchSize(size),
                  !.max_records = max_records,
                  !.process_batch = process_batch]
    /\ UNCHANGED outside

\* lines 58-61 and 69-75: search_count answers with a number, or fails
BsrCount ==
    /\ bp.pc = "count"
    /\ \/ \E total \in 0..MaxTotal :
            bp' = [bp EXCEPT
                     !.pc = "loop", !.counted = total,
                     !.total_records = CappedTotal(total, bp.max_records)]
       \/ bp' = [bp EXCEPT !.pc = "probe", !.count_failed = TRUE]
    /\ UNCHANGED outside

\* lines 63-75: the probe, a search_read with limit 1; OdooClient.search_read
\* answers a failure of its own with an empty list
BsrProbe ==
    /\ bp.pc = "probe"
    /\ \E test_batch \in 0..1 :
         IF test_batch = 0
         THEN bp' = Ended([bp EXCEPT !.probe = "empty"], <<>>)
         ELSE bp' = [bp EXCEPT
                       !.pc = "loop", !.probe = "found",
                       !.total_records =
                          CappedTotal(EstimatedTotal(bp.batch_size),
                                      bp.max_records)]
    /\ UNCHANGED outside

\* odoo_client.py lines 293-325: OdooClient.search_read returns the records
\* found, and the empty list when the remote call and its fallback fail
SearchReadAnswer(failed, records) == IF failed THEN <<>> ELSE records

\* lines 77-112: one turn of the loop; the remote returns up to limit
\* records or fails, and the callback, when there is one, may raise
BsrFetch ==
    /\ bp.pc = "loop"
    /\ bp.offset < bp.total_records
    /\ LET limit == CurrentBatchSize(bp.batch_size, bp.total_records,
                                     bp.offset)
           next == bp.offset + bp.batch_size
       IN \E found \in 0..limit, failed, raises \in BOOLEAN :
            /\ failed => found = 0
            /\ raises => (bp.process_batch /\ found > 0)
            /\ LET got == Len(SearchReadAnswer(failed, Records(0, found)))
                   l == [bp EXCEPT
                           !.fetches = Append(@, [offset |-> bp.offset,
                                                  limit |-> limit,
                                                  got |-> got,
                                                  failed |-> failed])]
                   m == [l EXCEPT
                           !.all_records =
                              IF bp.process_batch THEN @
                              ELSE @ \o Records(bp.offset, got),
                           !.processed_count = @ + got]
               IN IF got = 0 THEN bp' = Ended(l, l.all_records)
                  ELSE IF raises THEN bp' = [l EXCEPT !.offset = next]
                  ELSE IF ReachedMax(bp.max_records, m.processed_count)
                  THEN bp' = Ended(m, m.all_records)
                  ELSE bp' = [m EXCEPT !.offset = next]
    /\ UNCHANGED outside

\* lines 77 and 114: the range is exhausted
BsrEnd ==
    /\ bp.pc = "loop"
    /\ bp.offset >= bp.total_records
    /\ bp' = Ended(bp, bp.all_records)
    /\ UNCHANGED outside

\* one step of a paginated read
BatchRead ==
    \/ BsrCall
    \/ BsrCount
    \/ BsrProbe
    \/ BsrFetch
    \/ BsrEnd

(* ---- batch_create, batch_update, batch_delete, lines 379-608 --------- *)

\* the longest list of records or ids handed to a batch write
MaxRecords == 11

\* lines 448, 528, 606: at most this many errors are returned
error_cap == 10

\* the batch_size argument of a batch write; 0 stands for an omitted one
WriteSizeArgs == {0, 1, 4}

\* lines 408, 492, 570: the length of the slice [i:i+batch_size]
ChunkLen(i, total, batch_size) == Min(batch_size, total - i)

\* the id the remote gives to the record at position r of the input
IdOf(r) == r

\* an entry of the errors list
ErrorAt(i, size, error) == [at |-> i, size |-> size, error |-> error]

ExtendedOnlyLast(all_ids, batch_ids) == batch_ids

\* line 436: all_ids.extend(batch_ids)
Extended(all_ids, batch_ids) == all_ids \o batch_ids

StopsOnErrorNever(continue_on_error) == FALSE

\* lines 424, 505, 516, 583, 594: if not continue_on_error
StopsOnError(continue_on_error) == ~continue_on_error

AddedOne(count, size) == count + 1

\* lines 497 and 575: the count grows by the length of the chunk
Added(count, size) == count + size

\* lines 448, 528, 606
CapErrors(errors) ==
    IF Len(errors) > error_cap THEN SubSeq(errors, 1, error_cap) ELSE errors

\* lines 426-434: the dictionary returned when a create stops early
EarlyResult(all_ids, errors) ==
    [success |-> FALSE, created_ids |-> all_ids,
     total_created |-> Len(all_ids), total_failed |-> Len(errors),
     count |-> 0, errors |-> errors]

SucceededAlways(errors) == TRUE

\* line 443: len(errors) == 0
Succeeded(errors) == Len(errors) = 0

\* lines 441-450: the dictionary batch_create returns after its last chunk
CreateResult(all_ids, errors) ==
    [success |-> Succeeded(errors), created_ids |-> all_ids,
     total_created |-> Len(all_ids), total_failed |-> Len(errors),
     count |-> 0, errors |-> CapErrors(errors)]

\* lines 477-482 and 523-530, 555-560 and 601-608: the dictionary
\* batch_update and batch_delete return
WriteResult(success, count, errors) ==
    [success |-> success, created_ids |-> <<>>, total_created |-> 0,
     total_failed |-> 0, count |-> count, errors |-> CapErrors(errors)]

\* a batch write has ended, by returning a dictionary
Returned(l, result) ==
    [l EXCEPT !.pc = "done", !.returned = TRUE, !.result = result]

\* batch_create(model, records, batch_size=..., continue_on_error=...);
\* lines 398-405
BcCall ==
    /\ bp.pc = "idle"
    /\ \E n \in 0..MaxRecords, size \in WriteSizeArgs,
          continue_on_error \in BOOLEAN :
         bp' = [BatchIdle EXCEPT
                  !.pc = "chunk", !.op = "batch_create", !.n = n,
                  !.batch_size = EffectiveBatchSize(size),
                  !.continue_on_error = continue_on_error]
    /\ UNCHANGED outside

\* lines 407-411: the next chunk
BcChunk ==
    /\ bp.pc = "chunk"
    /\ bp.i < bp.n
    /\ bp' = [bp EXCEPT !.pc = "create", !.j = 0, !.batch_ids = <<>>]
    /\ UNCHANGED outside

\* lines 413-434: one create_record, which returns an id or raises
BcCreate ==
    /\ bp.pc = "create"
    /\ bp.j < ChunkLen(bp.i, bp.n, bp.batch_size)
    /\ LET r == bp.i + bp.j + 1
       IN \E created \in BOOLEAN :
            LET l == [bp EXCEPT
                        !.outcomes = Append(@, [at |-> r, size |-> 1,
                                                ok |-> created])]
                e == [l EXCEPT
                        !.errors = Append(@, ErrorAt(r, 1, "raised"))]
            IN IF created
               THEN bp' = [l EXCEPT !.j = @ + 1,
                                    !.batch_ids = Append(@, IdOf(r))]
               ELSE IF StopsOnError(bp.continue_on_error)
               THEN bp' = Returned(e, EarlyResult(e.all_ids, e.errors))
               ELSE bp' = [e EXCEPT !.j = @ + 1]
    /\ UNCHANGED outside

\* lines 436-437: the chunk is complete
BcChunkEnd ==
    /\ bp.pc = "create"
    /\ bp.j = ChunkLen(bp.i, bp.n, bp.batch_size)
    /\ bp' = [bp EXCEPT !.pc = "chunk", !.i = @ + bp.batch_size,
                        !.all_ids = Extended(@, bp.batch_ids)]
    /\ UNCHANGED outside

\* lines 439-450: every chunk is complete
BcReturn ==
    /\ bp.pc = "chunk"
    /\ bp.i >= bp.n
    /\ bp' = Returned(bp, CreateResult(bp.all_ids, bp.errors))
    /\ UNCHANGED outside

\* batch_update(model, record_ids, values, ...) and batch_delete(model,
\* record_ids, ...); lines 473-489 and 551-567
BwCall ==
    /\ bp.pc = "idle"
    /\ \E op \in {"batch_update", "batch_delete"}, n \in 0..MaxRecords,
          size \in WriteSizeArgs, continue_on_error \in BOOLEAN :
         LET l == [BatchIdle EXCEPT
                     !.op = op, !.n = n,
                     !.batch_size = EffectiveBatchSize(size),
                     !.continue_on_error = continue_on_error]
         IN IF n = 0
            THEN bp' = Returned(l, WriteResult(TRUE, 0, <<>>))
            ELSE bp' = [l EXCEPT !.pc = "write"]
    /\ UNCHANGED outside

\* lines 491-519 and 569-597: one write or unlink of a whole chunk, which
\* returns true, returns false or raises
BwWrite ==
    /\ bp.pc = "write"
    /\ bp.i < bp.n
    /\ LET size == ChunkLen(bp.i, bp.n, bp.batch_size)
       IN \E answer \in {"true", "false", "raised"} :
            LET l == [bp EXCEPT
                        !.i = @ + bp.batch_size,
                        !.outcomes = Append(@, [at |-> bp.i, size |-> size,
                                                ok |-> answer = "true"])]
                e == [l EXCEPT
                        !.success = FALSE,
                        !.errors = Append(@, ErrorAt(bp.i, size, answer))]
            IN IF answer = "true"
               THEN bp' = [l EXCEPT !.count = Added(@, size)]
               ELSE IF StopsOnError(bp.continue_on_error)
               THEN bp' = Returned(e, WriteResult(e.success, e.count,
                                                  e.errors))
               ELSE bp' = e
    /\ UNCHANGED outside

\* lines 521-530 and 599-608: every chunk was attempted
BwReturn ==
    /\ bp.pc = "write"
    /\ bp.i >= bp.n
    /\ bp' = Returned(bp, WriteResult(bp.success, bp.count, bp.errors))
    /\ UNCHANGED outside

\* one step of a batch write
BatchWrite ==
    \/ BcCall
    \/ BcChunk
    \/ BcCreate
    \/ BcChunkEnd
    \/ BcReturn
    \/ BwCall
    \/ BwWrite
    \/ BwReturn

(* -------- batch_process_records, server.py lines 407-538 -------------- *)

\* the most records the search of the batch tool matches
MaxMatched == 5

\* the operation argument: the four the tool knows and one it does not
Operations == {"update", "delete", "archive", "unarchive", "purge"}

\* the batch_size argument of the tool
ToolSizeArgs == {2, 3}

\* lines 449, 462, 475, 496, 516: the branch a chunk takes; values tells
\* whether a non-empty dictionary of values was given
Branch(operation, values) ==
    CASE operation = "update" /\ values -> "write"
      [] operation = "delete" -> "unlink"
      [] operation \in {"archive", "unarchive"} -> "archive"
      [] OTHER -> "invalid"

\* the dictionaries the tool returns, without their texts
ToolResult(success, processed) ==
    [success |-> success, created_ids |-> <<>>, total_created |-> 0,
     total_failed |-> 0, count |-> processed, errors |-> <<>>]

\* batch_process_records(ctx, model, domain, operation, values, batch_size)
BprCall ==
    /\ bp.pc = "idle"
    /\ \E operation \in Operations, values \in BOOLEAN,
          size \in ToolSizeArgs :
         bp' = [BatchIdle EXCEPT
                  !.pc = "search", !.op = "batch_process_records",
                  !.operation = operation, !.values = values,
                  !.batch_size = size]
    /\ UNCHANGED outside

\* lines 431-443 and 534-538: the search for the ids, which may fail
BprSearch ==
    /\ bp.pc = "search"
    /\ \/ bp' = Returned([bp EXCEPT !.searched = "failed"],
                         ToolResult(FALSE, 0))
       \/ \E total_count \in 0..MaxMatched :
            LET l == [bp EXCEPT !.searched = "ok", !.n = total_count]
            IN IF total_count = 0
               THEN bp' = Returned(l, ToolResult(TRUE, 0))
               ELSE bp' = [l EXCEPT !.pc = "process"]
    /\ UNCHANGED outside

\* lines 446-523: one chunk; a write or unlink returns or raises, and
\* get_model_fields answers with the fields of the model or, when its
\* remote call fails, with a dictionary that holds only the error
BprChunk ==
    /\ bp.pc = "process"
    /\ bp.i < bp.n
    /\ LET size == ChunkLen(bp.i, bp.n, bp.batch_size)
           branch == Branch(bp.operation, bp.values)
       IN \E raised \in BOOLEAN,
             fields \in {"active", "others", "error"} :
            LET sent == [bp EXCEPT
                           !.i = @ + bp.batch_size,
                           !.outcomes = Append(@, [at |-> bp.i,
                                                   size |-> size,
                                                   ok |-> ~raised])]
                remote == IF raised
                          THEN Returned(sent, ToolResult(FALSE, bp.count))
                          ELSE [sent EXCEPT !.count = Added(@, size)]
            IN CASE branch \in {"write", "unlink"} ->
                      /\ fields = "active"
                      /\ bp' = remote
                 [] branch = "archive" ->
                      IF fields = "active"
                      THEN bp' = remote
                      ELSE /\ ~raised
                           /\ bp' = Returned(
                                      [bp EXCEPT !.fields_failed =
                                                    fields = "error"],
                                      ToolResult(FALSE, 0))
                 [] OTHER ->
                      /\ ~raised
                      /\ fields = "active"
                      /\ bp' = Returned(bp, ToolResult(FALSE, 0))
    /\ UNCHANGED outside

\* lines 525-531: every chunk was processed
BprReturn ==
    /\ bp.pc = "process"
    /\ bp.i >= bp.n
    /\ bp' = Returned(bp, ToolResult(TRUE, bp.count))
    /\ UNCHANGED outside

\* one step of the batch tool
BatchTool ==
    \/ BprCall
    \/ BprSearch
    \/ BprChunk
    \/ BprReturn

(* ----------------- parallel_process, lines 116-171 -------------------- *)

\* the longest list of items handed to parallel_process
MaxItems == 5

\* __init__ line 19: the default size of the pool
max_workers == 3

\* line 142: lists up to this length are processed inline
serial_limit == 3

\* the max_workers argument of a call; 0 stands for an omitted one
WorkerArgs == {0, 2}

\* line 135: max_workers or self.max_workers
EffectiveWorkers(arg) == IF arg # 0 THEN arg ELSE max_workers

\* what process_func does with one item: return, raise, or never finish
Fates == {"ok", "fail", "hang"}

\* what process_func returns for item i
ResultOf(i) == [ok |-> TRUE, of |-> i]

\* None, recorded for a failed task
NoResult == [ok |-> FALSE, of |-> 0]

RecordedFirst(results, r) == <<r>> \o results

\* lines 156 and 166: results.append(...)
Recorded(results, r) == Append(results, r)

\* line 142
ProcessedInline(total_items) == total_items <= serial_limit

\* the tasks that hold a worker of the pool
Busy == {i \in 1..pp.n : pp.task[i] = "running"}

\* the items executor.submit has been called for
Submitted == {i \in 1..pp.n : pp.task[i] # "new"}

\* lines 148-166: the pool exists, its workers take and run tasks
PoolOpen == pp.pc \in {"submit", "collect"}

\* parallel_process(items, process_func, max_workers=...); lines 135-148:
\* a short list is processed inline, for a longer one the pool is created
PpCall ==
    /\ pp.pc = "idle"
    /\ \E n \in 0..MaxItems, workers \in WorkerArgs :
         \E fate \in [1..n -> Fates] :
            pp' = [ParallelIdle EXCEPT
                     !.pc = IF ProcessedInline(n) THEN "inline"
                            ELSE "submit",
                     !.n = n, !.fate = fate,
                     !.max_workers = EffectiveWorkers(workers),
                     !.task = [i \in 1..n |-> "new"]]
    /\ UNCHANGED <<manager, clock, client, bp>>

\* line 150: executor.submit(process_func, item) for the next item of the
\* list comprehension; the workers run the tasks already submitted in the
\* meantime.  After the last item the loop of line 153 begins.
PpSubmit ==
    /\ pp.pc = "submit"
    /\ LET i == Cardinality(Submitted) + 1
       IN pp' = [pp EXCEPT
                   !.task[i] = "queued",
                   !.pc = IF i = pp.n THEN "collect" ELSE "submit",
                   !.early = IF i = pp.n THEN Len(pp.finished) ELSE @]
    /\ UNCHANGED <<manager, clock, client, bp>>

\* line 143: the next item of the list comprehension; an exception of
\* process_func leaves the function, an item that never finishes blocks it
PpInline ==
    /\ pp.pc = "inline"
    /\ pp.k < pp.n
    /\ pp.fate[pp.k + 1] # "hang"
    /\ IF pp.fate[pp.k + 1] = "ok"
       THEN pp' = [pp EXCEPT
                     !.k = @ + 1, !.task[pp.k + 1] = "ok",
                     !.finished = Append(@, pp.k + 1),
                     !.results = Recorded(@, ResultOf(pp.k + 1))]
       ELSE pp' = [pp EXCEPT
                     !.pc = "done", !.raised = TRUE,
                     !.task[pp.k + 1] = "failed",
                     !.finished = Append(@, pp.k + 1)]
    /\ UNCHANGED <<manager, clock, client, bp>>

\* line 143: the list is complete and returned
PpInlineEnd ==
    /\ pp.pc = "inline"
    /\ pp.k = pp.n
    /\ pp' = [pp EXCEPT !.pc = "done", !.returned = TRUE]
    /\ UNCHANGED <<manager, clock, client, bp>>

\* ThreadPoolExecutor: a free worker takes the oldest queued task
TaskStart(i) ==
    /\ PoolOpen
    /\ i \in 1..pp.n
    /\ pp.task[i] = "queued"
    /\ \A j \in 1..(i - 1) : pp.task[j] # "queued"
    /\ Cardinality(Busy) < pp.max_workers
    /\ pp' = [pp EXCEPT !.task[i] = "running"]
    /\ UNCHANGED <<manager, clock, client, bp>>

\* process_func returns or raises in its worker; a task that never
\* finishes keeps its worker
TaskFinish(i) ==
    /\ PoolOpen
    /\ i \in 1..pp.n
    /\ pp.task[i] = "running"
    /\ pp.fate[i] # "hang"
    /\ pp' = [pp EXCEPT
                !.task[i] = IF pp.fate[i] = "ok" THEN "ok" ELSE "failed",
                !.finished = Append(@, i)]
    /\ UNCHANGED <<manager, clock, client, bp>>

\* lines 153-166: future.result() of the next future in submission order
\* returns or raises once its task has finished, and blocks until then
PpCollect ==
    /\ pp.pc = "collect"
    /\ pp.k < pp.n
    /\ pp.task[pp.k + 1] \in {"ok", "failed"}
    /\ pp' = [pp EXCEPT
                !.k = @ + 1,
                !.results = Recorded(@, IF pp.task[pp.k + 1] = "ok"
                                        THEN ResultOf(pp.k + 1)
                                        ELSE NoResult)]
    /\ UNCHANGED <<manager, clock, client, bp>>

\* lines 148 and 168-171: the pool is shut down and the list is returned
PpExit ==
    /\ pp.pc = "collect"
    /\ pp.k = pp.n
    /\ pp' = [pp EXCEPT !.pc = "done", !.returned = TRUE]
    /\ UNCHANGED <<manager, clock, client, bp>>

(* ------------------------- the environment ---------------------------- *)

\* a batch processor before its first call
InitBatch ==
    /\ BatchUnused
    /\ ClientUnused
    /\ TransportUnused
    /\ clock = 0
    /\ ManagerUnused

\* one step of a batch read or write
NextBatch ==
    \/ BatchRead
    \/ BatchWrite
    \/ BatchTool

SpecBatch == InitBatch /\ [][NextBatch]_vars

\* one step of a fan-out: of its caller or of a worker of its pool
NextParallel ==
    \/ PpCall
    \/ PpSubmit
    \/ PpInline
    \/ PpInlineEnd
    \/ \E i \in 1..MaxItems : TaskStart(i)
    \/ \E i \in 1..MaxItems : TaskFinish(i)
    \/ PpCollect
    \/ PpExit

SpecParallel == InitBatch /\ [][NextParallel]_vars

\* the caller and the workers are threads that run whenever they can
SpecParallelFair == SpecParallel /\ WF_vars(NextParallel)

(* ============================ properties ============================== *)

\* caller t has finished a get_client call
GotClient(t) == th[t].pc = "done" /\ th[t].op = "get"

\* no connection is registered under name n
Absent(n) ==
    /\ n \notin DOMAIN connections
    /\ n \notin DOMAIN utils
    /\ n \notin DOMAIN connection_timestamps

(* C1: when get_client finds an existing connection that fails            *)
(* revalidation it makes exactly one reconnect attempt, and if that        *)
(* attempt fails too it returns failure and the registry holds no client,  *)
(* no utils and no timestamp for the name any more.                        *)
C1_FailedReconnectPurges ==
    \A t \in Threads :
        (/\ GotClient(t)
         /\ th[t].startClient # None
         /\ th[t].valFailed
         /\ th[t].reauth = "fail")
        => /\ th[t].ret = None
           /\ th[t].reconnects = 1
           /\ Absent(th[t].name)

(* C2: for a name that had no connection when get_client was called, the   *)
(* call returns a client or a failure; a failed first authentication       *)
(* registers nothing; and when the call has returned the name is Valid (a  *)
(* client was returned and is registered) or Absent (failure, nothing      *)
(* registered).                                                            *)
C2_ValidOrAbsentAfterFirstUse ==
    \A t \in Threads :
        (GotClient(t) /\ th[t].startClient = None)
        => /\ th[t].ok <=> th[t].ret # None
           /\ th[t].firstAuth = "fail" => Absent(th[t].name)
           /\ \/ /\ th[t].ret # None
                 /\ GetResult(connections, th[t].name) = th[t].ret
              \/ /\ th[t].ret = None
                 /\ Absent(th[t].name)

(* C3: a get_client call in which validate_connection failed (age beyond   *)
(* the validity window, or a failed probe) returns a client only if its    *)
(* reconnect authenticated, and the client returned is then the one that   *)
(* reconnect constructed, never the one that failed validation.            *)
C3_StaleForcesReauthentication ==
    \A t \in Threads :
        (GotClient(t) /\ th[t].valFailed /\ th[t].ret # None)
        => /\ th[t].reauth = "ok"
           /\ th[t].reconnects = 1
           /\ th[t].ret = th[t].newc
           /\ th[t].ret # th[t].stale

\* a call found its connection too old and came back with a new client
C3_Witness ==
    /\ GotClient("t1")
    /\ th["t1"].startClient # None
    /\ th["t1"].valFailed
    /\ ~th["t1"].probed
    /\ th["t1"].stale = th["t1"].startClient
    /\ th["t1"].ret # None

(* C4: for an already-connected endpoint, a get_client call made while     *)
(* the remote side would fail the liveness probe does not hand out the     *)
(* existing client, whatever the client's cache setting and however long   *)
(* ago the previous probe was.                                             *)
C4_DownRemoteIsStale ==
    \A t \in Threads :
        (/\ GotClient(t)
         /\ th[t].startClient # None
         /\ th[t].probed
         /\ th[t].downAtProbe)
        => th[t].ret # th[t].startClient

(* C5: a connection exists in one generation: two callers whose            *)
(* get_client calls for one name overlap, and neither of which saw the     *)
(* connection fail validation (so that nothing called for a replacement),  *)
(* never end up holding two different client objects for that name.        *)
C5_OneGeneration ==
    \A t, u \in Threads :
        (/\ t # u
         /\ GotClient(t) /\ GotClient(u)
         /\ th[t].ov /\ th[u].ov
         /\ th[t].name = th[u].name
         /\ ~th[t].valFailed /\ ~th[u].valFailed
         /\ th[t].ret # None /\ th[u].ret # None)
        => th[t].ret = th[u].ret

(* C6: switch_instance(name) returns true only if name is in the known     *)
(* endpoint set and get_client(name) succeeded, and the active pointer is  *)
(* then name; when it returns false the active pointer is what it was      *)
(* when the call was made.                                                 *)
C6_SwitchActive ==
    \A t \in Threads :
        (th[t].pc = "done" /\ th[t].op = "switch")
        => IF th[t].ok
           THEN /\ th[t].arg \in instance_names
                /\ th[t].ret # None
                /\ th[t].ret = GetResult(connections, th[t].arg)
                /\ active_instance = th[t].arg
           ELSE active_instance = th[t].entryActive

\* a switch to another known endpoint succeeded
C6_Witness ==
    /\ th["t1"].pc = "done"
    /\ th["t1"].op = "switch"
    /\ th["t1"].ok
    /\ th["t1"].arg # th["t1"].entryActive

\* caller t is between the entry and the exit of an instance_context scope
InScope(t) == th[t].op = "ctx" /\ th[t].pc # "done"

(* C7, as claimed: instance_context never changes the active pointer: at   *)
(* every point between scope entry and scope exit the pointer has the      *)
(* value it had at entry.                                                  *)
C7_ScopeLeavesActiveAlone ==
    \A t \in Threads :
        InScope(t) => active_instance = th[t].entryActive

(* C7, amended: instance_context does change the active pointer.  For a    *)
(* single caller the pointer has its entry value until the scope's         *)
(* switch_instance succeeds, and from then until the scope exits it        *)
(* equals the scope's name, so that a get_client by omission made while    *)
(* the scope is open resolves to the scope's endpoint.                     *)
C7_ScopeSwitchesActive ==
    \A t \in Threads :
        InScope(t)
        => IF th[t].phase \in {"get", "body", "utils"}
           THEN /\ active_instance = th[t].arg
                /\ ResolveName(NoName, active_instance) = th[t].arg
           ELSE active_instance = th[t].entryActive

\* the caller's operation runs in a scope for an endpoint that was not the
\* active one
C7_Witness ==
    /\ th["t1"].op = "ctx"
    /\ th["t1"].pc = "ic_body"
    /\ th["t1"].arg # th["t1"].entryActive
    /\ active_instance = th["t1"].arg

(* C8: for a single caller, after instance_context has exited, whether     *)
(* the caller's operation completed or raised or the client could not be   *)
(* acquired, the active pointer has the value it had at scope entry.       *)
C8_ScopeRestoresActive ==
    \A t \in Threads :
        (th[t].pc = "done" /\ th[t].op = "ctx")
        => active_instance = th[t].entryActive

\* a scope for another endpoint was left through an exception of the
\* caller's operation
C8_Witness ==
    /\ th["t1"].pc = "done"
    /\ th["t1"].op = "ctx"
    /\ th["t1"].phase = "body"
    /\ th["t1"].raised
    /\ th["t1"].arg # th["t1"].entryActive

(* C9: when the instance_context scopes of two callers overlap, then once  *)
(* both have exited the active pointer has the value it had before either  *)
(* scope was entered.                                                      *)
C9_OverlappingScopesRestore ==
    \A t, u \in Threads :
        (/\ t # u
         /\ th[t].pc = "done" /\ th[t].op = "ctx"
         /\ th[u].pc = "done" /\ th[u].op = "ctx"
         /\ th[t].ov /\ th[u].ov)
        => active_instance = scope_base

(* C10: a get_client call with the name omitted reads the active pointer   *)
(* once, and whatever a concurrent switch does to the pointer, the call    *)
(* works on the endpoint it read: that is the name it connects, and the    *)
(* client it returns is one constructed for that name.                     *)
C10_ActiveReadOnce ==
    \A t \in Threads :
        (GotClient(t) /\ th[t].arg = NoName)
        => /\ th[t].reads = 1
           /\ th[t].name = th[t].rdActive
           /\ th[t].authName \in {NoName, th[t].rdActive}
           /\ th[t].ret # None => clients[th[t].ret].name = th[t].rdActive

\* a call by omission returned a client although the active pointer was
\* switched to another endpoint while the call ran
C10_Witness ==
    \E t \in Threads :
        /\ GotClient(t)
        /\ th[t].arg = NoName
        /\ th[t].ret # None
        /\ active_instance # th[t].rdActive

(* C11: remove_instance(name) with name equal to the active instance       *)
(* returns failure and changes nothing: the known instance names, the      *)
(* three connection maps, the stored configurations and the active         *)
(* pointer are all as the call found them.                                 *)
C11_RemoveActiveRefused ==
    \A t \in Threads :
        (/\ th[t].pc = "done" /\ th[t].op = "remove"
         /\ th[t].arg = th[t].pre.active_instance)
        => /\ ~th[t].ok
           /\ Snapshot = th[t].pre

\* the removal of the active instance, which was connected, was asked for
C11_Witness ==
    /\ th["t1"].pc = "done"
    /\ th["t1"].op = "remove"
    /\ th["t1"].arg = th["t1"].pre.active_instance
    /\ th["t1"].arg \in th["t1"].pre.instance_names
    /\ th["t1"].arg \in DOMAIN th["t1"].pre.connections

(* C12: disconnect_all succeeds and leaves no connection, no utils and no  *)
(* timestamp for any name, with the active pointer and the known names as  *)
(* before; called on a registry that holds no connection (a second call)   *)
(* it leaves the registry exactly as it found it.                          *)
C12_DisconnectAllIdempotent ==
    \A t \in Threads :
        (th[t].pc = "done" /\ th[t].op = "disconnect")
        => /\ th[t].ok
           /\ connections = EmptyDict
           /\ utils = EmptyDict
           /\ connection_timestamps = EmptyDict
           /\ active_instance = th[t].pre.active_instance
           /\ instance_names = th[t].pre.instance_names
           /\ configs = th[t].pre.configs
           /\ (/\ th[t].pre.connections = EmptyDict
               /\ th[t].pre.utils = EmptyDict
               /\ th[t].pre.connection_timestamps = EmptyDict)
              => Snapshot = th[t].pre

\* disconnect_all was called again after it had dropped a connection
C12_Witness ==
    /\ th["t1"].pc = "done"
    /\ th["t1"].op = "disconnect"
    /\ th["t1"].pre.connections = EmptyDict
    /\ th["t1"].pre.utils = EmptyDict
    /\ clients # <<>>
    /\ calls = MaxCalls

\* caller t has finished an execute_method call
Executed(t) == ct[t].pc = "done" /\ ct[t].op = "execute"

\* the read-only methods
ReadOnlyMethods == {search, read, search_read, fields_get}

\* caller t has finished a call of a read-only method on a caching client
CachedCall(t) ==
    /\ Executed(t)
    /\ cache_enabled
    /\ ct[t].method \in ReadOnlyMethods

\* the call of caller t found an entry for its key, inserted at stamp
FoundEntry(t, stamp) ==
    LET k == cache_key(ct[t].model, ct[t].method)
    IN /\ k \in DOMAIN ct[t].pre.cache
       /\ k \in DOMAIN ct[t].pre.cache_timestamps
       /\ ct[t].pre.cache_timestamps[k] = stamp

(* C13: a call of a read-only method on a caching client that finds an     *)
(* entry for its key with now - insertion_time < TTL returns that entry    *)
(* and makes no remote call; when there is no entry or                     *)
(* now - insertion_time >= TTL it makes one remote call and the entry is   *)
(* not what it returns from.                                               *)
C13_TtlRespected ==
    \A t \in Threads :
        CachedCall(t)
        => LET l == ct[t]
               k == cache_key(l.model, l.method)
           IN IF \E stamp \in ClientTimes :
                    FoundEntry(t, stamp) /\ l.now - stamp < client_ttl
              THEN /\ l.remote = 0
                   /\ l.hit
                   /\ l.error = "none"
                   /\ l.ret = l.pre.cache[k]
              ELSE /\ l.remote = 1
                   /\ ~l.hit

\* with TTL 5, the call at t=6 of what was cached at t=0 goes to the
\* remote side again
C13_Witness ==
    /\ CachedCall("t1")
    /\ FoundEntry("t1", 0)
    /\ ct["t1"].now = 6
    /\ ct["t1"].remote = 1
    /\ ct["t1"].error = "none"
    /\ cache_timestamps[cache_key(ct["t1"].model, ct["t1"].method)] = 6

(* C14: when the remote call of _execute fails, the caller gets the        *)
(* failure and the cache is exactly as the call found it: no entry added,  *)
(* overwritten, re-stamped or removed.                                     *)
C14_FailureNotCached ==
    \A t \in Threads :
        (Executed(t) /\ ct[t].remote_failed)
        => /\ ct[t].error = "RemoteError"
           /\ ct[t].ret = Failure
           /\ CacheSnapshot = ct[t].pre

\* the remote call that was to refresh an expired entry failed
C14_Witness ==
    /\ CachedCall("t1")
    /\ ct["t1"].remote_failed
    /\ \E stamp \in ClientTimes :
         FoundEntry("t1", stamp) /\ ct["t1"].now - stamp >= client_ttl

(* C15: only the read-only methods on a caching client read or write the   *)
(* cache; a call of any other method, or on a client with caching          *)
(* disabled, makes exactly one remote call and leaves the cache as it      *)
(* was.                                                                    *)
C15_OnlyReadOnlyCached ==
    \A t \in Threads :
        Executed(t)
        => /\ ct[t].touched => CachedCall(t)
           /\ ~CachedCall(t) => /\ ct[t].remote = 1
                                /\ ~ct[t].hit
                                /\ CacheSnapshot = ct[t].pre

\* search_count was called on a caching client whose cache held entries
C15_Witness ==
    /\ Executed("t1")
    /\ cache_enabled
    /\ ct["t1"].method = search_count
    /\ ct["t1"].pre.cache # EmptyDict
    /\ ct["t1"].error = "none"

\* the keys of the entries of model, and of method if one is given
Matching(model, method) ==
    {cache_key(m, me) :
        m \in {x \in Models : x = model},
        me \in {x \in Methods \cup ReadOnlyMethods :
                   method = NoArg \/ x = method}}

(* C16: clear_cache with model and method removes exactly the entries of   *)
(* that model and method, with only model exactly the entries of that      *)
(* model, with neither every entry; every other entry stays, with its      *)
(* timestamp.                                                              *)
C16_ClearCacheExact ==
    \A t \in Threads :
        (/\ ct[t].pc = "done" /\ ct[t].op = "clear_cache"
         /\ (ct[t].model # NoArg \/ ct[t].method = NoArg))
        => LET gone == IF ct[t].model = NoArg
                       THEN DOMAIN ct[t].pre.cache
                       ELSE Matching(ct[t].model, ct[t].method)
           IN /\ ct[t].error = "none"
              /\ cache = DelAll(ct[t].pre.cache, gone)
              /\ cache_timestamps = DelAll(ct[t].pre.cache_timestamps, gone)

\* clear_cache for one model and method removed an entry and left another
C16_Witness ==
    /\ ct["t1"].pc = "done"
    /\ ct["t1"].op = "clear_cache"
    /\ ct["t1"].model # NoArg
    /\ ct["t1"].method # NoArg
    /\ cache # ct["t1"].pre.cache
    /\ cache # EmptyDict

(* C17: invalidate_old_cache(max_age) removes every entry older than       *)
(* max_age and no other entry, for every max_age a caller can pass, 0      *)
(* included; when max_age is omitted the client's TTL is used.             *)
C17_SweepExact ==
    \A t \in Threads :
        (ct[t].pc = "done" /\ ct[t].op = "invalidate_old_cache")
        => LET age == IF ct[t].max_age.given THEN ct[t].max_age.value
                      ELSE client_ttl
               old == {k \in DOMAIN ct[t].pre.cache_timestamps :
                         ct[t].now - ct[t].pre.cache_timestamps[k] > age}
           IN /\ cache = DelAll(ct[t].pre.cache, old)
              /\ cache_timestamps = DelAll(ct[t].pre.cache_timestamps, old)

(* C18: whatever the interleaving of concurrent _execute, clear_cache and  *)
(* invalidate_old_cache calls on one client, none of them fails with a     *)
(* missing key or a dict changed during iteration, and once all have       *)
(* finished every cached key has a result and a timestamp.                 *)
C18_CacheNotCorrupted ==
    /\ \A t \in Threads : ct[t].error \notin {"KeyError", "RuntimeError"}
    /\ (\A t \in Threads : ct[t].pc \in {"idle", "done"})
       => DOMAIN cache = DOMAIN cache_timestamps

(* C19: when the combined search_read call is rejected, search_read runs   *)
(* the fallback search and read and returns the read's records; a failure  *)
(* of the fallback search or read is not turned into an empty result.      *)
C19_FallbackFailureNotEmpty ==
    \A t \in Threads :
        (/\ ct[t].pc = "done" /\ ct[t].op = "search_read"
         /\ ct[t].combined = "rejected")
        => /\ ct[t].searched # "none"
           /\ (ct[t].searched = "ids" /\ ct[t].fetched = "ok")
              => ct[t].ret = ct[t].fetched_result
           /\ ct[t].searched = "empty" => ct[t].ret = <<>>
           /\ (ct[t].searched = "fail" \/ ct[t].fetched = "fail")
              => ~(ct[t].ret = <<>> /\ ct[t].error = "none")

\* the redirects of the chain the request of the transport meets
Hops == Len(tr.chain) - 1

\* where the request following i redirects has to go
RECURSIVE Target(_)
Target(i) ==
    IF i = 0
    THEN <<"erp.example.com", <<"/xmlrpc/2/object">>>>
    ELSE LET location == tr.chain[i]
         IN <<IF location.netloc # "" THEN location.netloc
              ELSE Target(i - 1)[1],
              IF location.query # ""
              THEN <<location.path, "?", location.query>>
              ELSE <<location.path>>>>

(* C20: request follows a chain of k redirects and returns the final       *)
(* successful response for every k up to the hop limit (5), each request   *)
(* going to the host and path the previous response redirected to; it      *)
(* fails with too-many-redirects only when the chain is longer than the    *)
(* hop limit, and it never makes more requests than the chain has          *)
(* responses.                                                              *)
C20_FollowsUpToLimit ==
    /\ tr.hop <= Len(tr.chain)
    /\ \A i \in 1..Len(tr.sent) : tr.sent[i] = Target(i - 1)
    /\ tr.pc = "done"
       => /\ (Hops <= max_redirects /\ tr.chain[Len(tr.chain)].code = 200)
             => /\ tr.outcome = "ok"
                /\ Len(tr.sent) = Hops + 1
          /\ tr.outcome = "too_many_redirects" => Hops > max_redirects

\* a paginated read has returned
ReadReturned == bp.op = "batch_search_read" /\ bp.returned

\* every chunk fetched came back full
NoShortChunk ==
    \A k \in 1..Len(bp.fetches) : bp.fetches[k].got = bp.fetches[k].limit

\* the number of chunks of size c that hold n records
Chunks(n, c) == (n + c - 1) \div c

(* C21: a paginated read over N counted records with chunk size C, no     *)
(* record cap and no chunk returning short, issues exactly ceil(N/C)       *)
(* fetches, the k-th at offset (k-1)*C with limit min(C, N - offset), and  *)
(* without a callback returns all N records in fetch order.                *)
C21_FetchesEveryChunk ==
    (/\ ReadReturned
     /\ ~bp.count_failed
     /\ ~bp.max_records.given
     /\ NoShortChunk)
    => /\ Len(bp.fetches) = Chunks(bp.counted, bp.batch_size)
       /\ \A k \in 1..Len(bp.fetches) :
            /\ bp.fetches[k].offset = (k - 1) * bp.batch_size
            /\ bp.fetches[k].limit =
                 Min(bp.batch_size, bp.counted - bp.fetches[k].offset)
       /\ ~bp.process_batch => bp.ret = Records(0, bp.counted)

\* five counted records read in chunks of two: fetches of 2, 2 and 1
C21_Witness ==
    /\ ReadReturned
    /\ ~bp.count_failed
    /\ ~bp.max_records.given
    /\ ~bp.process_batch
    /\ bp.counted = 5
    /\ bp.batch_size = 2
    /\ Len(bp.fetches) = 3
    /\ bp.fetches[3] = [offset |-> 4, limit |-> 1, got |-> 1,
                       failed |-> FALSE]
    /\ Len(bp.ret) = 5

\* fetch f returned fewer than a chunk before the counted total, capped by
\* max_records, was reached
Short(f) ==
    /\ f.got < bp.batch_size
    /\ f.offset + f.got < bp.total_records

(* C22: a paginated read issues no further chunk fetch once a chunk has   *)
(* returned fewer than C records before the counted total is reached: a    *)
(* short chunk is the last fetch of the call.                              *)
C22_ShortChunkStops ==
    (bp.op = "batch_search_read" /\ ~bp.count_failed)
    => \A k \in 1..Len(bp.fetches) :
         Short(bp.fetches[k]) => k = Len(bp.fetches)

(* C23, as claimed: when the count call fails the read still returns: it  *)
(* probes with a one-record fetch, returns the empty list without any      *)
(* chunk fetch if the probe is empty, and otherwise fetches chunks         *)
(* starting at offset 0.                                                   *)
C23_CountFailureProbes ==
    (ReadReturned /\ bp.count_failed)
    => /\ bp.probe # "none"
       /\ bp.probe = "empty" => (bp.ret = <<>> /\ bp.fetches = <<>>)
       /\ bp.probe = "found"
          => /\ bp.fetches # <<>>
             /\ bp.fetches[1].offset = 0

(* C23, amended: when the count call fails the read still returns: it     *)
(* probes with a one-record fetch and returns the empty list without any   *)
(* chunk fetch if the probe is empty.  After a non-empty probe it assumes  *)
(* one chunk and caps it with max_records: a caller that asked for at      *)
(* most zero records gets the empty list without any chunk fetch, every    *)
(* other caller gets chunks fetched starting at offset 0.                  *)
C23_CountFailureProbesCapped ==
    (ReadReturned /\ bp.count_failed)
    => /\ bp.probe # "none"
       /\ bp.probe = "empty" => (bp.ret = <<>> /\ bp.fetches = <<>>)
       /\ bp.probe = "found"
          => IF bp.max_records.given /\ bp.max_records.value = 0
             THEN bp.ret = <<>> /\ bp.fetches = <<>>
             ELSE /\ bp.fetches # <<>>
                  /\ bp.fetches[1].offset = 0

\* the count failed, the probe found a record and the one assumed chunk
\* was fetched and returned
C23_Witness ==
    /\ ReadReturned
    /\ bp.count_failed
    /\ bp.probe = "found"
    /\ Len(bp.fetches) = 1
    /\ bp.fetches[1].offset = 0
    /\ bp.ret # <<>>

\* parallel_process has returned a list
FanOutReturned == pp.pc = "done" /\ pp.returned

(* C24: parallel_process returns a list as long as its input whose        *)
(* element i is the result of the item function on input i, whatever the   *)
(* input length and the order in which the tasks finish.                   *)
C24_ResultsInInputOrder ==
    FanOutReturned
    => /\ Len(pp.results) = pp.n
       /\ \A i \in 1..pp.n :
            pp.fate[i] = "ok" => pp.results[i] = ResultOf(i)

\* five items, all successful, the second finished before the first and
\* both before the last item was submitted
C24_Witness ==
    /\ FanOutReturned
    /\ pp.n = 5
    /\ \A i \in 1..pp.n : pp.fate[i] = "ok"
    /\ pp.finished[1] = 2
    /\ pp.early >= 2
    /\ pp.results[1] = ResultOf(1)
    /\ pp.results[5] = ResultOf(5)

(* C25: for every input length, when the item function fails on an item   *)
(* the call still returns normally, the failed position holds None, and    *)
(* every other item is executed and recorded at its position.              *)
C25_FailureYieldsNone ==
    pp.pc = "done"
    => /\ pp.returned
       /\ Len(pp.results) = pp.n
       /\ \A i \in 1..pp.n :
            /\ pp.fate[i] = "fail" => pp.results[i] = NoResult
            /\ pp.fate[i] = "ok" => pp.results[i] = ResultOf(i)

(* C26: with more than three items, the result of every task that has     *)
(* finished is eventually collected into the output, even when another     *)
(* item's task never finishes.                                             *)
C26_FinishedIsCollected ==
    \A i \in 1..MaxItems :
       (/\ PoolOpen
        /\ i <= pp.n
        /\ pp.task[i] \in {"ok", "failed"})
       ~> (Len(pp.results) >= i)

\* a batch write has returned its dictionary
WriteReturned(op) == bp.op = op /\ bp.returned

\* the ids of the records whose create succeeded, in the order of the calls
RECURSIVE CreatedIn(_)
CreatedIn(log) ==
    IF log = <<>> THEN <<>>
    ELSE IF Head(log).ok THEN <<IdOf(Head(log).at)>> \o CreatedIn(Tail(log))
    ELSE CreatedIn(Tail(log))

\* the total size of the remote calls of the log that ended as ok says
RECURSIVE SizeOf(_, _)
SizeOf(log, ok) ==
    IF log = <<>> THEN 0
    ELSE (IF Head(log).ok = ok THEN Head(log).size ELSE 0)
         + SizeOf(Tail(log), ok)

(* C27: batch_create issues its remote creates one per record in input    *)
(* order, and with continue_on_error = true it creates every record and    *)
(* returns as created_ids the ids of all successful creates in input       *)
(* order, whatever the chunk size.                                         *)
C27_CreatesEachInOrder ==
    bp.op = "batch_create"
    => /\ \A k \in 1..Len(bp.outcomes) : bp.outcomes[k].at = k
       /\ (bp.returned /\ bp.continue_on_error)
          => /\ Len(bp.outcomes) = bp.n
             /\ bp.result.created_ids = CreatedIn(bp.outcomes)

\* five records in chunks of four: the second and the fifth fail, the
\* others are returned in order
C27_Witness ==
    /\ WriteReturned("batch_create")
    /\ bp.continue_on_error
    /\ bp.n = 5
    /\ bp.batch_size = 4
    /\ bp.result.created_ids = <<IdOf(1), IdOf(3), IdOf(4)>>
    /\ ~bp.result.success

(* C28: on every return path of batch_create, the early stop with         *)
(* continue_on_error = false included, total_created is the number of      *)
(* records whose create succeeded, created_ids lists exactly those, and    *)
(* total_failed is the number whose create failed, whatever the cap on the *)
(* returned error list.                                                    *)
C28_CreateCountersExact ==
    WriteReturned("batch_create")
    => /\ bp.result.total_created = SizeOf(bp.outcomes, TRUE)
       /\ bp.result.created_ids = CreatedIn(bp.outcomes)
       /\ bp.result.total_failed = SizeOf(bp.outcomes, FALSE)

\* the position in the log of the first remote call that failed, or 0
FirstFailed ==
    IF \E k \in 1..Len(bp.outcomes) : ~bp.outcomes[k].ok
    THEN CHOOSE k \in 1..Len(bp.outcomes) :
           /\ ~bp.outcomes[k].ok
           /\ \A h \in 1..(k - 1) : bp.outcomes[h].ok
    ELSE 0

(* C29: with continue_on_error = false, batch_update and batch_delete     *)
(* stop at the first chunk whose remote call raises or returns false: no   *)
(* later remote call is made, success is false, the count is the total     *)
(* size of the chunks before it and is smaller than the number of ids, and *)
(* exactly one error entry is returned.                                    *)
C29_StopsAtFirstFailure ==
    (/\ bp.op \in {"batch_update", "batch_delete"}
     /\ ~bp.continue_on_error
     /\ FirstFailed # 0)
    => /\ bp.returned
       /\ Len(bp.outcomes) = FirstFailed
       /\ ~bp.result.success
       /\ bp.result.count = (FirstFailed - 1) * bp.batch_size
       /\ bp.result.count < bp.n
       /\ Len(bp.result.errors) = 1

\* ten ids deleted in chunks of four, the second chunk fails
C29_Witness ==
    /\ WriteReturned("batch_delete")
    /\ ~bp.continue_on_error
    /\ bp.n = 10
    /\ bp.batch_size = 4
    /\ FirstFailed = 2
    /\ bp.result.count = 4
    /\ ~bp.result.success
    /\ Len(bp.result.errors) = 1

(* C30: with continue_on_error = true every chunk is attempted and        *)
(* processed plus failed equals the total: for batch_create total_created  *)
(* plus total_failed is the number of records, for batch_update and        *)
(* batch_delete the count plus the sizes of the failed chunks is the       *)
(* number of ids.                                                          *)
C30_ProcessedPlusFailedIsTotal ==
    (bp.returned /\ bp.continue_on_error)
    => /\ bp.op = "batch_create"
          => /\ SizeOf(bp.outcomes, TRUE) + SizeOf(bp.outcomes, FALSE) = bp.n
             /\ bp.result.total_created + bp.result.total_failed = bp.n
       /\ bp.op \in {"batch_update", "batch_delete"}
          => /\ Len(bp.outcomes) = Chunks(bp.n, bp.batch_size)
             /\ bp.result.count + SizeOf(bp.outcomes, FALSE) = bp.n

\* eleven ids updated in chunks of four: the first chunk fails, the other
\* two succeed
C30_Witness ==
    /\ WriteReturned("batch_update")
    /\ bp.continue_on_error
    /\ bp.n = 11
    /\ bp.batch_size = 4
    /\ Len(bp.outcomes) = 3
    /\ FirstFailed = 1
    /\ bp.result.count = 7
    /\ SizeOf(bp.outcomes, FALSE) = 4

(* C31: for batch_create, batch_update and batch_delete the returned       *)
(* success flag is true if and only if no error was recorded during the    *)
(* job, for both values of continue_on_error and for empty input.          *)
C31_SuccessIffNoError ==
    (/\ bp.op \in {"batch_create", "batch_update", "batch_delete"}
     /\ bp.returned)
    => (bp.result.success <=> (bp.errors = <<>> /\ FirstFailed = 0))

\* a create of three records that went on after a failure and reports it
C31_Witness ==
    /\ WriteReturned("batch_create")
    /\ bp.continue_on_error
    /\ bp.n = 3
    /\ Len(bp.errors) = 1
    /\ Len(bp.result.created_ids) = 2
    /\ ~bp.result.success

\* caller t is storing the connection of a successful reconnect of name n
Replacing(t, n) ==
    /\ th[t].name = n
    /\ th[t].valFailed
    /\ th[t].reauth = "ok"
    /\ th[t].pc \in {"conn_s1", "conn_s2", "conn_s3"}

(* C32: on a successful reconnect the registry entry of the name changes   *)
(* from the old connection to the new one in one step: a concurrent caller *)
(* about to read the entry (get_client line 148, get_utils line 166) never *)
(* finds the name without a connection, nor the new client registered      *)
(* together with the old utils or the old timestamp.                       *)
C32_ReplacedInOneStep ==
    \A t, u \in Threads :
        (/\ t # u
         /\ Replacing(t, th[t].name)
         /\ th[u].pc = "gc_ret"
         /\ th[u].name = th[t].name)
        => /\ th[t].name \in DOMAIN connections
           \* until line 89 has run the timestamp is the old connection's
           /\ connections[th[t].name] = th[t].newc
              => /\ th[t].name \in DOMAIN utils
                 /\ utils[th[t].name] = th[t].newc
                 /\ th[t].pc # "conn_s3"

(* C33: in a paginated read a chunk whose remote fetch fails is skipped    *)
(* and the remaining chunks up to the counted total are still fetched: a   *)
(* failed fetch is the last one of the call only when it is the fetch of   *)
(* the last chunk.                                                         *)
C33_FailedChunkIsSkipped ==
    ReadReturned
    => \A k \in 1..Len(bp.fetches) :
         (/\ bp.fetches[k].failed
          /\ bp.fetches[k].offset + bp.batch_size < bp.total_records)
         => k < Len(bp.fetches)

\* the batch tool has returned after a successful search
ToolReturned ==
    /\ bp.op = "batch_process_records"
    /\ bp.returned
    /\ bp.searched = "ok"

(* C34: batch_process_records, given an unsupported operation name or      *)
(* 'update' without values, returns a failure with processed = 0 and       *)
(* issues no remote write or unlink; given a supported operation, when a   *)
(* remote call of a chunk fails it stops and reports as processed the      *)
(* total size of the chunks that succeeded before it.                      *)
C34_ToolRejectsAndStops ==
    ToolReturned
    => /\ Branch(bp.operation, bp.values) = "invalid"
          => /\ ~bp.result.success
             /\ bp.result.count = 0
             /\ bp.outcomes = <<>>
       /\ (Branch(bp.operation, bp.values) # "invalid"
           /\ (FirstFailed # 0 \/ bp.fields_failed))
          => /\ ~bp.result.success
             /\ FirstFailed \in {0, Len(bp.outcomes)}
             /\ bp.result.count = SizeOf(bp.outcomes, TRUE)

(* C35: in every state reachable by switches, removals, refreshes and      *)
(* scope entries and exits, a removal made while a scope is open included, *)
(* if the set of known instances is not empty the active instance is one   *)
(* of them.                                                                *)
C35_ActiveIsKnown ==
    instance_names # {} => active_instance \in instance_names

(* C36: get_client(name) never registers under name a connection built    *)
(* from the configuration of another instance: every registered client was *)
(* constructed from the configuration of the name it is registered under,  *)
(* and a get_client for a name that has no configuration of its own fails. *)
C36_OwnConfiguration ==
    /\ \A n \in DOMAIN connections : clients[connections[n]].cfg = n
    /\ \A t \in Threads :
         (GotClient(t) /\ th[t].name \notin DOMAIN configs) => th[t].ret = None

(* C37: whenever remove_instance returns false the registry is unchanged:  *)
(* the known instance names and the connection, utils and timestamp maps   *)
(* are as the call found them, also when it is the configuration store     *)
(* that refuses the removal.                                               *)
C37_FailedRemoveChangesNothing ==
    \A t \in Threads :
        (th[t].pc = "done" /\ th[t].op = "remove" /\ ~th[t].ok)
        => /\ instance_names = th[t].pre.instance_names
           /\ connections = th[t].pre.connections
           /\ utils = th[t].pre.utils
           /\ connection_timestamps = th[t].pre.connection_timestamps

(* C38: after a successful write on a model through a client, a later      *)
(* cacheable read on that model through the same client does not return a  *)
(* result that was cached before the write.                                *)
C38_MutationInvalidatesReads ==
    (/\ Executed("t1")
     /\ ct["t1"].method = write
     /\ ct["t1"].error = "none"
     /\ Executed("t2")
     /\ ct["t2"].method \in ReadOnlyMethods
     /\ ct["t2"].model = ct["t1"].model)
    => ~ct["t2"].hit

\* the entries of the cache that belong to calls of method
EntriesOf(c, method) ==
    {k \in DOMAIN c : \E m \in Models : k = cache_key(m, method)}

(* C39: clear_cache called with a method and no model removes only the     *)
(* cached entries of that method: the entries of other methods stay, with  *)
(* their timestamps.                                                       *)
C39_ClearByMethodKeepsOthers ==
    \A t \in Threads :
        (/\ ct[t].pc = "done" /\ ct[t].op = "clear_cache"
         /\ ct[t].model = NoArg
         /\ ct[t].method # NoArg)
        => \A k \in (DOMAIN ct[t].pre.cache)
                      \ EntriesOf(ct[t].pre.cache, ct[t].method) :
             /\ k \in DOMAIN cache
             /\ k \in DOMAIN cache_timestamps

====
